---- MODULE Spec2Model ----
(***************************************************************************)
(* Dependency check and repair of modrinth.index.json                      *)
(* (tools/check_modrinth_dependencies.py).                                 *)
(*                                                                         *)
(* Spec      one or two consecutive runs of main() on a manifest drawn     *)
(*           from a small catalogue, against a fixed registry whose        *)
(*           requests may fail.                                            *)
(* SpecNorm  normalize_modrinth_index applied twice to a manifest drawn    *)
(*           from a set with missing keys, extra keys and mixed key order. *)
(***************************************************************************)
EXTENDS Integers, Sequences, FiniteSets, TLC

VARIABLES
    args,              \* argparse.Namespace: the options main() reads
    indexFile,         \* JSON held by the file at --index
    outFile,           \* JSON held by the file at --write-index when it is another path
    backupFile,        \* JSON held by the .bak file
    pc,                \* position of main()
    run,               \* 1 for the first run, 2 for the run on the manifest the first one wrote
    index_json,        \* main(): index_json (its "files" list is mutated in place by repair)
    mod_files,         \* main(): mod_files
    version_data,      \* main(): keys of version_data (the records are the registry's)
    project_slug_map,  \* main(): keys of project_slug_map (the slugs are the registry's)
    rows,              \* main(): one row per classified dependency edge
    unmet_required,    \* main(): unmet_required
    total_required,    \* main(): total_required
    no_dependency_mods,\* main(): no_dependency_mods
    todo,              \* repair loop: the project ids still to visit, in loop order
    cache_by_version,  \* repair loop: keys of cache_by_version
    changes,           \* repair loop: changes
    skipped,           \* repair loop: skipped
    normalized,        \* main(): normalized
    original,          \* history: the JSON this run read from --index
    touched,           \* history: positions of files[] this run replaced or appended
    repairRequests,    \* history: registry requests issued by this run after reconciliation
    writes,            \* history: writes of the output manifest by this run
    lost,              \* history: registry lookups of this run that got no answer
    normIn,            \* SpecNorm: the manifest given to normalize_modrinth_index
    normOnce,          \* SpecNorm: normalize(normIn)
    normTwice,         \* SpecNorm: normalize(normalize(normIn))
    npc,               \* SpecNorm: position
    retries,           \* fetch_json: retries
    attempt,           \* fetch_json: attempt
    last_error,        \* fetch_json: last_error
    raised,            \* fetch_json: the exception that left the function
    outcomes,          \* history: what urlopen and json.loads did on each attempt
    slept,             \* history: the waits of time.sleep, in tenths of a second
    fpc,               \* fetch_json: position
    wanted_ids,        \* collect_versions_by_ids: version_ids
    batch_size,        \* collect_versions_by_ids: batch_size
    batch_at,          \* collect_versions_by_ids: i, the index in ids where the batch starts
    data,              \* collect_versions_by_ids: keys of data
    errors,            \* collect_versions_by_ids: errors
    retried,           \* history: ids requested one by one
    failed_ids,        \* history: ids of the batches whose request raised or answered no list
    cpc,               \* collect_versions_by_ids: position
    manifest_file,     \* create_prs: modrinth.index.json in the work tree when main() starts
    pr_index,          \* create_prs main(): index
    pr_pos,            \* create_prs main(): position in index["files"] of the next old
    git_head,          \* git: the branch checked out
    local_branches,    \* git: the manifest at the tip of each local branch
    remote_branches,   \* git: the manifest at the tip of each branch of origin
    pulls,             \* GitHub: head branches of the pull requests this run created
    dry_run,           \* create_prs: DRY_RUN
    github_token,      \* create_prs: GITHUB_TOKEN is set
    produced,          \* history: branches this run created with git checkout -B
    verdicts,          \* history: what the loop did with each entry, in order
    upc                \* create_prs main(): position

mainVars == <<args, indexFile, outFile, backupFile, pc, run, index_json, mod_files,
              version_data, project_slug_map, rows, unmet_required, total_required,
              no_dependency_mods, todo, cache_by_version, changes, skipped, normalized,
              original, touched, repairRequests, writes, lost>>
normVars == <<normIn, normOnce, normTwice, npc>>
fetchVars == <<retries, attempt, last_error, raised, outcomes, slept, fpc>>
collectVars == <<wanted_ids, batch_size, batch_at, data, errors, retried, failed_ids, cpc>>
updateVars == <<manifest_file, pr_index, pr_pos, git_head, local_branches, remote_branches,
                pulls, dry_run, github_token, produced, verdicts, upc>>
sideVars == <<fetchVars, collectVars, updateVars>>
restVars == <<normVars, sideVars>>
vars == <<mainVars, normVars, sideVars>>

----------------------------------------------------------------------------
(* Bounds *)

MaxFiles == 3       \* longest files[] of an input manifest
MaxLost == 1        \* most registry lookups of one run that get no answer
MaxNormFiles == 3   \* longest files[] given to normalize in SpecNorm

----------------------------------------------------------------------------
(* Python strings.  A string is a TLA+ string; CodePoints spells each string *)
(* of the model, and prefix tests, comparisons, lower() and concatenation    *)
(* are computed on the code points as Python computes them.                  *)

CodePoints ==
    ("mods/a.jar" :> <<109, 111, 100, 115, 47, 97, 46, 106, 97, 114>>) @@
    ("mods/b.jar" :> <<109, 111, 100, 115, 47, 98, 46, 106, 97, 114>>) @@
    ("mods/l-1.jar" :> <<109, 111, 100, 115, 47, 108, 45, 49, 46, 106, 97, 114>>) @@
    ("mods/l-2.jar" :> <<109, 111, 100, 115, 47, 108, 45, 50, 46, 106, 97, 114>>) @@
    ("mods/l-3.jar" :> <<109, 111, 100, 115, 47, 108, 45, 51, 46, 106, 97, 114>>) @@
    ("mods/q.jar" :> <<109, 111, 100, 115, 47, 113, 46, 106, 97, 114>>) @@
    ("Mods/z.jar" :> <<77, 111, 100, 115, 47, 122, 46, 106, 97, 114>>) @@
    ("a.jar" :> <<97, 46, 106, 97, 114>>) @@
    ("b.jar" :> <<98, 46, 106, 97, 114>>) @@
    ("l-1.jar" :> <<108, 45, 49, 46, 106, 97, 114>>) @@
    ("l-2.jar" :> <<108, 45, 50, 46, 106, 97, 114>>) @@
    ("l-3.jar" :> <<108, 45, 51, 46, 106, 97, 114>>) @@
    ("q.jar" :> <<113, 46, 106, 97, 114>>) @@
    ("PA" :> <<80, 65>>) @@
    ("PB" :> <<80, 66>>) @@
    ("PL" :> <<80, 76>>) @@
    ("PQ" :> <<80, 81>>) @@
    ("PR" :> <<80, 82>>) @@
    ("PS" :> <<80, 83>>) @@
    ("a1" :> <<97, 49>>) @@
    ("b1" :> <<98, 49>>) @@
    ("l1" :> <<108, 49>>) @@
    ("l2" :> <<108, 50>>) @@
    ("l3" :> <<108, 51>>) @@
    ("q1" :> <<113, 49>>) @@
    ("r1" :> <<114, 49>>) @@
    ("cdn/data/PA/versions/a1/a.jar" :> <<99, 100, 110, 47, 100, 97, 116, 97, 47, 80, 65, 47, 118, 101, 114, 115, 105, 111, 110, 115, 47, 97, 49, 47, 97, 46, 106, 97, 114>>) @@
    ("cdn/data/PB/versions/b1/b.jar" :> <<99, 100, 110, 47, 100, 97, 116, 97, 47, 80, 66, 47, 118, 101, 114, 115, 105, 111, 110, 115, 47, 98, 49, 47, 98, 46, 106, 97, 114>>) @@
    ("cdn/data/PL/versions/l1/l-1.jar" :> <<99, 100, 110, 47, 100, 97, 116, 97, 47, 80, 76, 47, 118, 101, 114, 115, 105, 111, 110, 115, 47, 108, 49, 47, 108, 45, 49, 46, 106, 97, 114>>) @@
    ("cdn/data/PL/versions/l2/l-2.jar" :> <<99, 100, 110, 47, 100, 97, 116, 97, 47, 80, 76, 47, 118, 101, 114, 115, 105, 111, 110, 115, 47, 108, 50, 47, 108, 45, 50, 46, 106, 97, 114>>) @@
    ("cdn/data/PL/versions/l3/l-3.jar" :> <<99, 100, 110, 47, 100, 97, 116, 97, 47, 80, 76, 47, 118, 101, 114, 115, 105, 111, 110, 115, 47, 108, 51, 47, 108, 45, 51, 46, 106, 97, 114>>) @@
    ("cdn/data/PQ/versions/q1/q.jar" :> <<99, 100, 110, 47, 100, 97, 116, 97, 47, 80, 81, 47, 118, 101, 114, 115, 105, 111, 110, 115, 47, 113, 49, 47, 113, 46, 106, 97, 114>>) @@
    ("ext/files/q.jar" :> <<101, 120, 116, 47, 102, 105, 108, 101, 115, 47, 113, 46, 106, 97, 114>>) @@
    ("" :> <<>>) @@
    ("x" :> <<120>>) @@
    ("a-2.jar" :> <<97, 45, 50, 46, 106, 97, 114>>) @@
    ("mods/a-2.jar" :> <<109, 111, 100, 115, 47, 97, 45, 50, 46, 106, 97, 114>>) @@
    ("neoforge" :> <<110, 101, 111, 102, 111, 114, 103, 101>>) @@
    ("fabric" :> <<102, 97, 98, 114, 105, 99>>) @@
    ("None" :> <<78, 111, 110, 101>>) @@
    ("mods/" :> <<109, 111, 100, 115, 47>>) @@
    ("/data/" :> <<47, 100, 97, 116, 97, 47>>) @@
    ("/versions/" :> <<47, 118, 101, 114, 115, 105, 111, 110, 115, 47>>) @@
    ("2024-01-01" :> <<50, 48, 50, 52, 45, 48, 49, 45, 48, 49>>) @@
    ("2024-06-01" :> <<50, 48, 50, 52, 45, 48, 54, 45, 48, 49>>) @@
    ("2024-09-01" :> <<50, 48, 50, 52, 45, 48, 57, 45, 48, 49>>)

Cps(s) == CodePoints[s]

\* the string with the given code points
StrOf(cps) == CHOOSE s \in DOMAIN CodePoints : CodePoints[s] = cps

MinOf(a, b) == IF a <= b THEN a ELSE b

\* a < b on str: first differing code point decides, a proper prefix is smaller
CpsLess(a, b) ==
    \E i \in 1..(MinOf(Len(a), Len(b)) + 1) :
        /\ \A j \in 1..(i - 1) : a[j] = b[j]
        /\ \/ i > Len(a) /\ i <= Len(b)
           \/ i <= Len(a) /\ i <= Len(b) /\ a[i] < b[i]

StrLess(a, b) == CpsLess(Cps(a), Cps(b))

\* str.lower() on the code points: A..Z become a..z
LowerCps(cps) == [i \in 1..Len(cps) |-> IF cps[i] >= 65 /\ cps[i] <= 90 THEN cps[i] + 32 ELSE cps[i]]

\* s.startswith(p)
StartsWith(s, p) ==
    /\ Len(Cps(p)) <= Len(Cps(s))
    /\ SubSeq(Cps(s), 1, Len(Cps(p))) = Cps(p)

\* sorted(seq, key=...): the stable sort, Less comparing the keys of two elements
StableSortBy(seq, Less(_, _)) ==
    LET n == Len(seq)
        before(j, i) == Less(seq[j], seq[i]) \/ (~Less(seq[i], seq[j]) /\ j < i)
        pos(i) == 1 + Cardinality({j \in 1..n : j # i /\ before(j, i)})
    IN  [p \in 1..n |-> seq[CHOOSE i \in 1..n : pos(i) = p]]

\* sorted(set of str)
SortedStrs(S) ==
    LET pos(s) == 1 + Cardinality({t \in S : StrLess(t, s)})
    IN  [p \in 1..Cardinality(S) |-> CHOOSE s \in S : pos(s) = p]

----------------------------------------------------------------------------
(* JSON values.  Every value carries its type, so that None, a string and   *)
(* a dict can be compared; a dict is the sequence of its (key, value) pairs *)
(* in insertion order, as Python dicts and json.dumps keep it.              *)

JNull == <<"null">>
JStr(s) == <<"str", s>>
JNum(n) == <<"num", n>>
JList(items) == <<"list", items>>
JObj(pairs) == <<"obj", pairs>>

IsStr(v) == v[1] = "str"
IsList(v) == v[1] = "list"
IsObj(v) == v[1] = "obj"

Pairs(o) == o[2]
Items(l) == l[2]
KeysOf(o) == {Pairs(o)[i][1] : i \in 1..Len(Pairs(o))}
Has(o, k) == k \in KeysOf(o)
\* o.get(k, default)
Get(o, k, default) ==
    IF Has(o, k)
    THEN Pairs(o)[CHOOSE i \in 1..Len(Pairs(o)) : Pairs(o)[i][1] = k][2]
    ELSE default
\* o[k] = v: an existing key keeps its place, a new key goes last
Put(o, k, v) ==
    IF Has(o, k)
    THEN JObj([i \in 1..Len(Pairs(o)) |-> IF Pairs(o)[i][1] = k THEN <<k, v>> ELSE Pairs(o)[i]])
    ELSE JObj(Append(Pairs(o), <<k, v>>))
\* the pairs of o whose key is not in S, in order
RECURSIVE PairsExcept(_, _)
PairsExcept(ps, S) ==
    IF ps = <<>> THEN <<>>
    ELSE IF Head(ps)[1] \in S THEN PairsExcept(Tail(ps), S)
         ELSE <<Head(ps)>> \o PairsExcept(Tail(ps), S)

\* str(v) for the values a path can hold
PyStr(v) == IF IsStr(v) THEN v[2] ELSE "None"

----------------------------------------------------------------------------
(* Canonical key order and normalization of the manifest *)

\* the pair (k, o[k]) when o has k, else nothing
PairIfHas(o, k) == IF Has(o, k) THEN <<<<k, Get(o, k, JNull)>>>> ELSE <<>>

ordered_hashes(hashes) ==
    JObj(PairIfHas(hashes, "sha512") \o PairIfHas(hashes, "sha1")
         \o PairsExcept(Pairs(hashes), {"sha512", "sha1"}))

ordered_env(env) ==
    JObj(PairIfHas(env, "client") \o PairIfHas(env, "server")
         \o PairsExcept(Pairs(env), {"client", "server"}))

ordered_file_entry(entry) ==
    LET hashes == Get(entry, "hashes", JNull)
        env == Get(entry, "env", JNull)
    IN  JObj(<<<<"path", Get(entry, "path", JNull)>>>>
             \o (IF hashes # JNull
                 THEN <<<<"hashes", IF IsObj(hashes) THEN ordered_hashes(hashes) ELSE hashes>>>>
                 ELSE <<>>)
             \o (IF env # JNull
                 THEN <<<<"env", IF IsObj(env) THEN ordered_env(env) ELSE env>>>>
                 ELSE <<>>)
             \o PairIfHas(entry, "downloads")
             \o PairIfHas(entry, "fileSize")
             \o PairsExcept(Pairs(entry), {"path", "hashes", "env", "downloads", "fileSize"}))

ordered_dependencies(deps) ==
    JObj(PairIfHas(deps, "neoforge") \o PairIfHas(deps, "minecraft")
         \o PairsExcept(Pairs(deps), {"neoforge", "minecraft"}))

\* key=lambda e: str(e.get("path", ""))
PathKey(e) == PyStr(Get(e, "path", JStr("")))
PathKeyLess(e1, e2) == StrLess(PathKey(e1), PathKey(e2))

\* sorted(files, key=...), every entry of the model being a dict
SortedFiles(items) == StableSortBy(items, PathKeyLess)

normalize_modrinth_index(index) ==
    LET files == Get(index, "files", JList(<<>>))
        deps == Get(index, "dependencies", JObj(<<>>))
        sorted_files == SortedFiles(Items(files))
        head == [i \in 1..5 |->
                    LET key == <<"game", "formatVersion", "versionId", "name", "summary">>[i]
                    IN  <<key, Get(index, key, JNull)>>]
    IN  JObj(head
             \o <<<<"files",
                    IF IsList(files)
                    THEN JList([i \in 1..Len(sorted_files) |-> ordered_file_entry(sorted_files[i])])
                    ELSE JList(<<>>)>>>>
             \o <<<<"dependencies",
                    IF IsObj(deps) THEN ordered_dependencies(deps) ELSE JObj(<<>>)>>>>
             \o PairsExcept(Pairs(index),
                            {"game", "formatVersion", "versionId", "name", "summary",
                             "files", "dependencies"}))

----------------------------------------------------------------------------
(* The registry (api.modrinth.com), as the responses it gives when a request *)
(* succeeds.  A field the API leaves out is None.                            *)

None == "<None>"

Dep(type, pid, vid, file) ==
    [dependency_type |-> type, project_id |-> pid, version_id |-> vid, file_name |-> file]

FileAsset(filename, url, primary, size) ==
    [filename |-> filename, url |-> url, primary |-> primary, size |-> size,
     hashes |-> [sha512 |-> "s5", sha1 |-> "s1"]]

Version(id, pid, deps, files, date, loaders) ==
    [id |-> id, project_id |-> pid, dependencies |-> deps, files |-> files,
     date_published |-> date, game_versions |-> {"1.21.1"}, loaders |-> loaders]

\* GET /version/{id}
RegistryVersion ==
    ("a1" :> Version("a1", "PA", <<Dep("required", "PL", "l1", None),
                                   Dep("optional", "PS", None, None),
                                   Dep("embedded", None, "l1", None)>>,
                     <<FileAsset("a.jar", "cdn/data/PA/versions/a1/a.jar", TRUE, 11)>>,
                     "2024-06-01", {"neoforge"})) @@
    ("b1" :> Version("b1", "PB", <<Dep("required", "PL", "l3", None),
                                   Dep("required", "PQ", None, None),
                                   Dep("required", "PR", None, None),
                                   Dep("incompatible", "PL", None, None),
                                   Dep("required", None, None, "x.jar")>>,
                     <<FileAsset("b.jar", "cdn/data/PB/versions/b1/b.jar", TRUE, 12)>>,
                     "2024-06-01", {"neoforge"})) @@
    ("l1" :> Version("l1", "PL", <<>>,
                     <<FileAsset("l-1.jar", "cdn/data/PL/versions/l1/l-1.jar", TRUE, 13)>>,
                     "2024-01-01", {"neoforge"})) @@
    ("l2" :> Version("l2", "PL", <<>>,
                     <<FileAsset("l-2.jar", "cdn/data/PL/versions/l2/l-2.jar", TRUE, 14)>>,
                     "2024-06-01", {"neoforge"})) @@
    ("l3" :> Version("l3", "PL", <<>>,
                     <<FileAsset("l-3.jar", "cdn/data/PL/versions/l3/l-3.jar", TRUE, 15)>>,
                     "2024-09-01", {"neoforge"})) @@
    ("q1" :> Version("q1", "PQ", <<>>,
                     <<FileAsset("q-sources.jar", "cdn/data/PQ/versions/q1/q-sources.jar", FALSE, 16),
                       FileAsset("q.jar", "cdn/data/PQ/versions/q1/q.jar", TRUE, 17)>>,
                     "2024-06-01", {"neoforge"})) @@
    ("r1" :> Version("r1", "PR", <<>>, <<>>, None, {"neoforge", "fabric"}))

\* GET /project/{id}/version, newest first, before the query's filters
RegistryProjectVersions ==
    ("PA" :> <<"a1">>) @@ ("PB" :> <<"b1">>) @@
    ("PL" :> <<"l3", "l2", "l1">>) @@ ("PQ" :> <<"q1">>) @@ ("PR" :> <<"r1">>) @@ ("PS" :> <<>>)

\* GET /project/{id}: slug
RegistrySlug ==
    ("PA" :> "mod-a") @@ ("PB" :> "mod-b") @@ ("PL" :> "lib-l") @@
    ("PQ" :> "lib-q") @@ ("PR" :> "neoforge") @@ ("PS" :> "fabric")

\* the versions of a project that pass the loaders and game_versions filters, in order
RegistryCompatible(project_id, game_version, loaders) ==
    SelectSeq(RegistryProjectVersions[project_id],
              LAMBDA v : /\ (loaders # <<>> =>
                               \E i \in 1..Len(loaders) : loaders[i] \in RegistryVersion[v].loaders)
                         /\ (game_version # None => game_version \in RegistryVersion[v].game_versions))

----------------------------------------------------------------------------
(* Manifest entries *)

ModFile(path, project_id, version_id, file_index) ==
    [path |-> path, project_id |-> project_id, version_id |-> version_id,
     file_index |-> file_index]

\* DATA_VERSION_URL_RE.search(url): the leftmost "/data/<id>/versions/<id>/",
\* an <id> being one or more characters other than "/".  <<>> when nothing matches,
\* else <<group 1, group 2>>.
Slash == 47
NextSlash(u, from) ==
    IF \E k \in from..Len(u) : u[k] = Slash
    THEN CHOOSE k \in from..Len(u) : u[k] = Slash /\ \A m \in from..(k - 1) : u[m] # Slash
    ELSE 0
MatchAt(u, i) ==
    LET d == Cps("/data/")
        v == Cps("/versions/")
        j == NextSlash(u, i + Len(d))
        k == NextSlash(u, j + Len(v))
    IN  /\ i + Len(d) - 1 <= Len(u)
        /\ SubSeq(u, i, i + Len(d) - 1) = d
        /\ j > i + Len(d)
        /\ j + Len(v) - 1 <= Len(u)
        /\ SubSeq(u, j, j + Len(v) - 1) = v
        /\ k > j + Len(v)
DATA_VERSION_URL_RE(url) ==
    LET u == Cps(url)
        starts == {i \in 1..Len(u) : MatchAt(u, i)}
    IN  IF starts = {} THEN <<>>
        ELSE LET i == CHOOSE s \in starts : \A t \in starts : s <= t
                 g1 == i + Len(Cps("/data/"))
                 j == NextSlash(u, g1)
                 g2 == j + Len(Cps("/versions/"))
                 k == NextSlash(u, g2)
             IN  <<StrOf(SubSeq(u, g1, j - 1)), StrOf(SubSeq(u, g2, k - 1))>>

\* one step of the loop of parse_mod_files: the ModFile of files[idx], or nothing
ParseEntry(entry, idx) ==
    LET path == Get(entry, "path", JStr(""))
        downloads == Get(entry, "downloads", JList(<<>>))
    IN  IF ~IsStr(path) \/ ~StartsWith(path[2], "mods/") THEN <<>>
        ELSE IF Items(downloads) = <<>> \/ ~IsStr(Items(downloads)[1]) THEN <<>>
        ELSE LET match == DATA_VERSION_URL_RE(Items(downloads)[1][2])
             IN  IF match = <<>> THEN <<>>
                 ELSE <<ModFile(path[2], match[1], match[2], idx)>>

RECURSIVE ParseFrom(_, _)
ParseFrom(files, idx) ==
    IF idx > Len(files) THEN <<>>
    ELSE ParseEntry(files[idx], idx) \o ParseFrom(files, idx + 1)

\* what "for idx, entry in enumerate(files)" goes through: the items of a list, the keys
\* of a dict, the characters of a str; any other value is not iterable
Iterable(v) == v[1] \in {"list", "obj", "str"}
Elements(v) ==
    IF IsList(v) THEN Items(v)
    ELSE IF IsObj(v) THEN [i \in 1..Len(Pairs(v)) |-> JStr(Pairs(v)[i][1])]
    ELSE [i \in 1..Len(Cps(v[2])) |-> JStr(StrOf(<<Cps(v[2])[i]>>))]

\* parse_mod_files raises: AttributeError at line 133 (index_json has no get) or at line
\* 135 (an entry has no get), TypeError at line 134 (files cannot be iterated)
ParseRaises(index) ==
    IF ~IsObj(index) THEN TRUE
    ELSE IF ~Iterable(Get(index, "files", JList(<<>>))) THEN TRUE
    ELSE \E i \in 1..Len(Elements(Get(index, "files", JList(<<>>)))) :
            ~IsObj(Elements(Get(index, "files", JList(<<>>)))[i])

\* file_index is the position in files[], counted from 1 here
parse_mod_files(index) == ParseFrom(Elements(Get(index, "files", JList(<<>>))), 1)

infer_loaders(runtime_keys) ==
    LET known == <<"neoforge", "forge", "fabric", "quilt">>
        out == SelectSeq(known, LAMBDA k : k \in runtime_keys)
    IN  IF out # <<>> THEN out ELSE <<"neoforge">>

\* the file flagged primary, else the first: <<the file>>, or <<>> for None
select_primary_file(version_obj) ==
    LET files == version_obj.files
    IN  IF files = <<>> THEN <<>>
        ELSE IF \E i \in 1..Len(files) : files[i].primary
             THEN <<files[CHOOSE i \in 1..Len(files) :
                             files[i].primary /\ \A j \in 1..(i - 1) : ~files[j].primary]>>
             ELSE <<files[1]>>

\* the manifest entry of the version's chosen file, or JNull for None
index_file_from_version(version_obj) ==
    LET chosen == select_primary_file(version_obj)
        file_obj == chosen[1]
    IN  IF chosen = <<>> THEN JNull
        ELSE IF file_obj.filename = None \/ file_obj.url = None THEN JNull
        ELSE JObj(<<<<"path", JStr(StrOf(Cps("mods/") \o Cps(file_obj.filename)))>>,
                    <<"hashes", JObj(<<<<"sha512", JStr(file_obj.hashes.sha512)>>,
                                       <<"sha1", JStr(file_obj.hashes.sha1)>>>>)>>,
                    <<"env", JObj(<<<<"client", JStr("required")>>,
                                    <<"server", JStr("required")>>>>)>>,
                    <<"downloads", JList(<<JStr(file_obj.url)>>)>>,
                    <<"fileSize", JNum(file_obj.size)>>>>)

----------------------------------------------------------------------------
(* Reconciliation (main, up to the report) *)

RequiredDepIssue(consumer_mod_path, dep_project_id, dep_version_id, display, detail) ==
    [consumer_mod_path |-> consumer_mod_path, dep_project_id |-> dep_project_id,
     dep_version_id |-> dep_version_id, display |-> display, detail |-> detail]

SeqToSet(s) == {s[i] : i \in 1..Len(s)}

\* version_data.get(version_id): <<the record>>, or <<>> when the id was not resolved
VersionData(vdata, version_id) ==
    IF version_id \in vdata THEN <<RegistryVersion[version_id]>> ELSE <<>>

\* installed_projects: project id -> installed version ids, from the download URLs and
\* from the project_id of each resolved version record
installed_projects(mods, vdata) ==
    LET fromUrl == {mods[i].project_id : i \in 1..Len(mods)}
        fromApi == {RegistryVersion[mods[i].version_id].project_id :
                        i \in {j \in 1..Len(mods) : mods[j].version_id \in vdata}}
    IN  [pid \in fromUrl \cup fromApi |->
            {mods[i].version_id : i \in {j \in 1..Len(mods) :
                \/ mods[j].project_id = pid
                \/ /\ mods[j].version_id \in vdata
                   /\ RegistryVersion[mods[j].version_id].project_id = pid}}]

installed_version_ids(mods) == {mods[i].version_id : i \in 1..Len(mods)}

\* project_to_entries.get(pid, []): the entries whose URL names pid, in files[] order
project_to_entries(mods, pid) == SelectSeq(mods, LAMBDA m : m.project_id = pid)

\* the targets of required edges that are not installed: the ids whose slug is asked for
external_required_project_ids(mods, vdata) ==
    LET installed == installed_projects(mods, vdata)
        deps == UNION {SeqToSet(RegistryVersion[mods[i].version_id].dependencies) :
                          i \in {j \in 1..Len(mods) : mods[j].version_id \in vdata}}
    IN  {d.project_id : d \in {e \in deps : /\ e.dependency_type = "required"
                                              /\ e.project_id # None
                                              /\ e.project_id \notin DOMAIN installed}}

\* variant: the kind alone decides, a provided edge of kind incompatible is reported
StateByKind(provided, dep_type) ==
    IF dep_type = "incompatible" THEN "INCOMPATIBLE"
    ELSE IF provided THEN "OK"
    ELSE IF dep_type = "required" THEN "MISSING"
    ELSE IF dep_type = "optional" THEN "OPTIONAL"
    ELSE "UNMET"

\* lines 505-545: display, provided, detail and state of one dependency edge
StateOf(provided, dep_type) ==
    IF provided THEN "OK"
    ELSE IF dep_type = "required" THEN "MISSING"
    ELSE IF dep_type = "optional" THEN "OPTIONAL"
    ELSE IF dep_type = "incompatible" THEN "INCOMPATIBLE"
    ELSE "UNMET"

\* mutant of ExactVersionMismatch: the presence of the project is enough
PresenceIsEnough(dep_vid, installed_vids) == FALSE

\* line 514: the edge pins a version and the installed project does not have it
ExactVersionMismatch(dep_vid, installed_vids) == dep_vid # None /\ dep_vid \notin installed_vids

Classify(dep, installed, slug_map, runtime_keys, version_ids) ==
    LET dep_pid == dep.project_id
        dep_vid == dep.version_id
        dep_file == dep.file_name
        has_slug == dep_pid # None /\ dep_pid \in slug_map
        label == IF dep_pid # None THEN dep_pid
                 ELSE IF dep_vid # None THEN dep_vid
                 ELSE IF dep_file # None THEN dep_file
                 ELSE "<unknown dependency>"
        display == [label |-> label, slug |-> IF has_slug THEN RegistrySlug[dep_pid] ELSE None]
        verdict ==
            IF dep_pid # None /\ dep_pid \in DOMAIN installed
            THEN IF ExactVersionMismatch(dep_vid, installed[dep_pid])
                 THEN [provided |-> FALSE, detail |-> "requires exact version"]
                 ELSE [provided |-> TRUE, detail |-> "provided by mod in pack"]
            ELSE IF has_slug /\ RegistrySlug[dep_pid] \in runtime_keys
            THEN [provided |-> TRUE, detail |-> "provided by runtime"]
            ELSE IF dep_vid # None /\ dep_vid \in version_ids
            THEN [provided |-> TRUE, detail |-> "provided by exact version in pack"]
            ELSE IF has_slug
            THEN [provided |-> FALSE, detail |-> "not present in pack/runtime (slug)"]
            ELSE IF dep_pid # None
            THEN [provided |-> FALSE, detail |-> "not present in pack/runtime"]
            ELSE [provided |-> FALSE, detail |-> "cannot resolve dependency target"]
    IN  [dep_type |-> dep.dependency_type, dep |-> dep, display |-> display,
         provided |-> verdict.provided, detail |-> verdict.detail,
         state |-> StateOf(verdict.provided, dep.dependency_type)]

\* sorted(mod_files, key=lambda m: m.path.lower())
ModPathLess(m1, m2) == CpsLess(LowerCps(Cps(m1.path)), LowerCps(Cps(m2.path)))
SortedMods(mods) == StableSortBy(mods, ModPathLess)

\* the rows of one mod: its edges, narrowed to the required ones under --required-only
ModRows(mod, mods, vdata, slug_map, runtime_keys, required_only) ==
    LET deps == RegistryVersion[mod.version_id].dependencies
        kept == SelectSeq(deps, LAMBDA d : ~required_only \/ d.dependency_type = "required")
    IN  [i \in 1..Len(kept) |->
            [consumer |-> mod.path] @@
            Classify(kept[i], installed_projects(mods, vdata), slug_map, runtime_keys,
                     installed_version_ids(mods))]

\* the loop of lines 485-563 from position i of the sorted mods: all rows, in order
RECURSIVE RowsFrom(_, _, _, _, _, _, _)
RowsFrom(sorted, i, mods, vdata, slug_map, runtime_keys, required_only) ==
    IF i > Len(sorted) THEN <<>>
    ELSE (IF sorted[i].version_id \in vdata
          THEN ModRows(sorted[i], mods, vdata, slug_map, runtime_keys, required_only)
          ELSE <<>>)
         \o RowsFrom(sorted, i + 1, mods, vdata, slug_map, runtime_keys, required_only)

\* variant: an issue for every row whose state is not OK, whatever its kind
UnmetOfAnyKind(allRows) ==
    LET bad == SelectSeq(allRows, LAMBDA r : r.state # "OK")
    IN  [i \in 1..Len(bad) |->
            RequiredDepIssue(bad[i].consumer, bad[i].dep.project_id, bad[i].dep.version_id,
                             bad[i].display, bad[i].detail)]

\* unmet_required: one issue per required row whose state is not OK
UnmetRequired(allRows) ==
    LET bad == SelectSeq(allRows, LAMBDA r : r.dep_type = "required" /\ r.state # "OK")
    IN  [i \in 1..Len(bad) |->
            RequiredDepIssue(bad[i].consumer, bad[i].dep.project_id, bad[i].dep.version_id,
                             bad[i].display, bad[i].detail)]

TotalRequired(allRows) == Len(SelectSeq(allRows, LAMBDA r : r.dep_type = "required"))

\* no_dependency_mods: the resolved mods with an empty dependency list
NoDependencyMods(sorted, vdata) ==
    LET hit == SelectSeq(sorted, LAMBDA m :
                   m.version_id \in vdata /\ RegistryVersion[m.version_id].dependencies = <<>>)
    IN  [i \in 1..Len(hit) |-> hit[i].path]

----------------------------------------------------------------------------
(* Repair (main, --fix-index) *)

\* variant: repair goes ahead whenever --fix-index is given
RepairWheneverAsked(a, unmet) == a.fix_index

\* lines 613-618: repair has something to do
NeedsRepair(a, unmet) == a.fix_index /\ unmet # <<>>

\* the issues of one target project, in the order of unmet_required
GroupIssues(unmet, dep_pid) == SelectSeq(unmet, LAMBDA i : i.dep_project_id = dep_pid)

\* sorted(issues_by_project.items()): the target project ids in loop order
GroupOrder(unmet) == SortedStrs({unmet[i].dep_project_id : i \in 1..Len(unmet)} \ {None})

\* unresolved_without_project
UnresolvedWithoutProject(unmet) == Len(SelectSeq(unmet, LAMBDA i : i.dep_project_id = None))

\* sorted({i.dep_version_id for i in issues if i.dep_version_id})
RequiredVids(issues) ==
    SortedStrs({issues[i].dep_version_id : i \in 1..Len(issues)} \ {None})

SkipEntry(dep_pid, reason, versions) ==
    [project |-> dep_pid, reason |-> reason, versions |-> versions]

\* skipped.append(...); continue
Skip(st, entry) == [st EXCEPT !.skipped = Append(@, entry)]

\* lines 646-680: the repair target of one group.  okTarget is the outcome of the one
\* registry request this may issue.
ResolveTarget(dep_pid, required_vids, cache, mc_version, loaders, okTarget) ==
    IF required_vids # <<>>
    THEN LET target_vid == required_vids[1]
         IN  IF target_vid \in cache
             THEN [obj |-> <<RegistryVersion[target_vid]>>, target_vid |-> target_vid,
                   cache |-> cache, requests |-> 0, error |-> None]
             ELSE IF okTarget
             THEN [obj |-> <<RegistryVersion[target_vid]>>, target_vid |-> target_vid,
                   cache |-> cache \cup {target_vid}, requests |-> 1, error |-> None]
             ELSE [obj |-> <<>>, target_vid |-> target_vid, cache |-> cache,
                   requests |-> 1, error |-> "cannot fetch required version"]
    ELSE IF ~okTarget
         THEN [obj |-> <<>>, target_vid |-> None, cache |-> cache,
               requests |-> 1, error |-> "cannot fetch compatible version"]
         ELSE LET items == RegistryCompatible(dep_pid, mc_version, loaders)
              IN  IF items = <<>>
                  THEN [obj |-> <<>>, target_vid |-> None, cache |-> cache,
                        requests |-> 1, error |-> None]
                  ELSE [obj |-> <<RegistryVersion[items[1]]>>,
                        target_vid |-> RegistryVersion[items[1]].id,
                        cache |-> cache \cup {RegistryVersion[items[1]].id},
                        requests |-> 1, error |-> None]

\* variant: the comparison of the two dates the other way round
UpgradeBlocked(current_date, target_date) ==
    current_date # None /\ target_date # None /\ StrLess(current_date, target_date)

\* lines 710-714: both dates are strings and the target's is the smaller one
DowngradeBlocked(current_date, target_date) ==
    current_date # None /\ target_date # None /\ StrLess(target_date, current_date)

\* lines 691-718: the downgrade check for an installed project.  okCurrent is the
\* outcome of the one registry request this may issue.
DowngradeCheck(current_vid, target_obj, target_vid, cache, allow_downgrade_deps, okCurrent) ==
    IF current_vid # target_vid /\ ~allow_downgrade_deps
    THEN LET cached == current_vid \in cache
             known == cached \/ okCurrent
             current_date == IF known THEN RegistryVersion[current_vid].date_published ELSE None
         IN  [blocked |-> DowngradeBlocked(current_date, target_obj.date_published),
              cache |-> IF known THEN cache \cup {current_vid} ELSE cache,
              requests |-> IF cached THEN 0 ELSE 1,
              failed |-> ~cached /\ ~okCurrent]
    ELSE [blocked |-> FALSE, cache |-> cache, requests |-> 0, failed |-> FALSE]

\* variant: the entry with the highest file_index
LastEntry(existing) ==
    existing[CHOOSE i \in 1..Len(existing) :
                 \A j \in 1..Len(existing) : existing[i].file_index >= existing[j].file_index]

\* sorted(existing_entries, key=lambda m: m.file_index)[0]
FirstEntry(existing) ==
    existing[CHOOSE i \in 1..Len(existing) :
                 \A j \in 1..Len(existing) : existing[i].file_index <= existing[j].file_index]

\* variant: the old entry is removed and the new one always goes to the end
RemoveThenAppend(files, existing, new_entry) ==
    IF existing # <<>>
    THEN Append(SelectSeq(files, LAMBDA e : e # files[FirstEntry(existing).file_index]),
                new_entry)
    ELSE Append(files, new_entry)

\* lines 720-728: overwrite files[first.file_index], or append
ApplyEntry(files, existing, new_entry) ==
    IF existing # <<>>
    THEN [files EXCEPT ![FirstEntry(existing).file_index] = new_entry]
    ELSE Append(files, new_entry)

\* the skip reasons of the loop body, one per "skipped.append(...); continue"
\* st = [files, cache, changes, skipped, touched, requests, lost]

\* the registry requests of a step, charged to the run
Charge(st, cache, requests, failed) ==
    [st EXCEPT !.cache = cache, !.requests = @ + requests,
               !.lost = @ + (IF failed THEN 1 ELSE 0)]

\* lines 720-725: the project is installed and the downgrade check chk is done
ReplaceFirst(dep_pid, target_vid, new_entry, existing, chk, st) ==
    IF chk.blocked
    THEN Skip(Charge(st, chk.cache, chk.requests, chk.failed),
              SkipEntry(dep_pid, "downgrade blocked",
                        <<FirstEntry(existing).version_id, target_vid>>))
    ELSE [Charge(st, chk.cache, chk.requests, chk.failed) EXCEPT
             !.files = ApplyEntry(st.files, existing, new_entry),
             !.touched = @ \cup {FirstEntry(existing).file_index},
             !.changes = Append(@, [kind |-> "updated", project |-> dep_pid,
                                    old_path |-> Get(st.files[FirstEntry(existing).file_index],
                                                     "path", JNull),
                                    path |-> Get(new_entry, "path", JNull),
                                    version |-> target_vid])]

\* lines 726-728: the project is not installed
AppendNew(dep_pid, target_vid, new_entry, existing, st) ==
    [st EXCEPT !.files = ApplyEntry(st.files, existing, new_entry),
               !.touched = @ \cup {Len(st.files) + 1},
               !.changes = Append(@, [kind |-> "added", project |-> dep_pid,
                                      old_path |-> JNull,
                                      path |-> Get(new_entry, "path", JNull),
                                      version |-> target_vid])]

\* lines 682-728: the target version is resolved; build its entry and apply it
InstallTarget(dep_pid, target_obj, target_vid, new_entry, existing, st, a, okCurrent) ==
    IF new_entry = JNull
    THEN Skip(st, SkipEntry(dep_pid, "no usable file metadata", <<target_vid>>))
    ELSE IF existing # <<>>
    THEN ReplaceFirst(dep_pid, target_vid, new_entry, existing,
                      DowngradeCheck(FirstEntry(existing).version_id, target_obj, target_vid,
                                     st.cache, a.allow_downgrade_deps, okCurrent),
                      st)
    ELSE AppendNew(dep_pid, target_vid, new_entry, existing, st)

\* lines 646-728: res is what ResolveTarget gave
RepairResolved(dep_pid, res, mods, st, a, okCurrent) ==
    IF res.error # None
    THEN Skip(Charge(st, res.cache, res.requests, TRUE),
              SkipEntry(dep_pid, res.error, <<res.target_vid>>))
    ELSE IF res.obj = <<>> \/ res.target_vid = None
    THEN Skip(Charge(st, res.cache, res.requests, FALSE),
              SkipEntry(dep_pid, "no target version resolved", <<>>))
    ELSE InstallTarget(dep_pid, res.obj[1], res.target_vid,
                       index_file_from_version(res.obj[1]),
                       project_to_entries(mods, dep_pid),
                       Charge(st, res.cache, res.requests, FALSE), a, okCurrent)

\* lines 639-644: the conflict test on the pinned versions of the group
RepairVids(dep_pid, required_vids, mods, st, a, mc_version, loaders, okTarget, okCurrent) ==
    IF Len(required_vids) > 1
    THEN Skip(st, SkipEntry(dep_pid, "conflicting required versions", required_vids))
    ELSE RepairResolved(dep_pid,
                        ResolveTarget(dep_pid, required_vids, st.cache, mc_version, loaders,
                                      okTarget),
                        mods, st, a, okCurrent)

\* one pass of the loop body of lines 638-728 for dep_pid
RepairOne(dep_pid, unmet, mods, st, a, mc_version, loaders, okTarget, okCurrent) ==
    RepairVids(dep_pid, RequiredVids(GroupIssues(unmet, dep_pid)), mods, st, a,
               mc_version, loaders, okTarget, okCurrent)

----------------------------------------------------------------------------
(* Input manifests and options *)

\* the entry a pack exporter wrote for an installed version (keys not in canonical order)
PackEntry(version_id) ==
    LET f == RegistryVersion[version_id].files[1]
    IN  JObj(<<<<"downloads", JList(<<JStr(f.url)>>)>>,
               <<"fileSize", JNum(f.size)>>,
               <<"path", JStr(StrOf(Cps("mods/") \o Cps(f.filename)))>>,
               <<"hashes", JObj(<<<<"sha1", JStr(f.hashes.sha1)>>,
                                  <<"sha512", JStr(f.hashes.sha512)>>>>)>>>>)

\* a jar added by hand: under mods/, downloaded from somewhere else
ManualEntry ==
    JObj(<<<<"path", JStr("mods/q.jar")>>,
           <<"hashes", JObj(<<<<"sha512", JStr("x5")>>, <<"sha1", JStr("x1")>>>>)>>,
           <<"downloads", JList(<<JStr("ext/files/q.jar")>>)>>,
           <<"fileSize", JNum(18)>>>>)

Catalogue ==
    <<PackEntry("a1"), PackEntry("b1"), PackEntry("l1"), PackEntry("l2"), ManualEntry>>

\* the sequences of at most n distinct elements of cat
DistinctSeqs(cat, n) ==
    UNION {{[i \in 1..k |-> cat[f[i]]] :
              f \in {g \in [1..k -> 1..Len(cat)] : \A x, y \in 1..k : x # y => g[x] # g[y]}} :
           k \in 0..n}

\* the "dependencies" object of the manifest
RuntimeChoices ==
    {JObj(<<<<"minecraft", JStr("1.21.1")>>, <<"neoforge", JStr("21.1.1")>>>>),
     JObj(<<<<"minecraft", JStr("1.21.1")>>, <<"fabric", JStr("0.16.0")>>>>)}

Manifest(files, deps) ==
    JObj(<<<<"formatVersion", JNum(1)>>, <<"game", JStr("minecraft")>>,
           <<"files", JList(files)>>, <<"dependencies", deps>>>>)

InputManifests ==
    {Manifest(files, deps) : files \in DistinctSeqs(Catalogue, MaxFiles), deps \in RuntimeChoices}

\* the options of parse_args that main() branches on; write_same: --write-index is
\* empty or resolves to --index (line 735)
DefaultArgs ==
    [fix_index |-> FALSE, allow_downgrade_deps |-> FALSE, no_backup |-> FALSE,
     write_same |-> TRUE, required_only |-> FALSE]

\* the command lines explored: the defaults, and each option switched on its own or
\* together with --fix-index
ArgsSet ==
    {DefaultArgs,
     [DefaultArgs EXCEPT !.required_only = TRUE],
     [DefaultArgs EXCEPT !.fix_index = TRUE],
     [DefaultArgs EXCEPT !.fix_index = TRUE, !.allow_downgrade_deps = TRUE],
     [DefaultArgs EXCEPT !.fix_index = TRUE, !.no_backup = TRUE],
     [DefaultArgs EXCEPT !.fix_index = TRUE, !.write_same = FALSE]}

NoFile == <<"nofile">>

\* a file whose text is not JSON
NotJson == <<"text">>

\* load_json_file: <<the value>>, or <<>> when it ends the run with SystemExit(2)
load_json_file(file) == IF file \in {NoFile, NotJson} THEN <<>> ELSE <<file>>

\* manifests whose root is not an object, or whose "files" is not a list
ManifestWith(files, deps) ==
    JObj(<<<<"formatVersion", JNum(1)>>, <<"game", JStr("minecraft")>>,
           <<"files", files>>, <<"dependencies", deps>>>>)
MalformedManifests ==
    {JList(<<>>), JStr("x"), JNull}
    \cup {ManifestWith(files, JObj(<<<<"minecraft", JStr("1.21.1")>>,
                                     <<"neoforge", JStr("21.1.1")>>>>)) :
             files \in {JObj(<<>>), JObj(<<<<"x", JNum(1)>>>>), JStr(""), JStr("x"),
                        JNull, JNum(5)}}

FilesOf(index) == Items(Get(index, "files", JList(<<>>)))

\* runtime_dependencies, runtime_keys, mc_version (lines 412-415, 632)
RuntimeDependencies(index) ==
    LET deps == Get(index, "dependencies", JObj(<<>>))
    IN  IF deps = JNull THEN JObj(<<>>) ELSE deps
RuntimeKeys(index) == KeysOf(RuntimeDependencies(index))
McVersion(index) ==
    LET v == Get(RuntimeDependencies(index), "minecraft", JNull)
    IN  IF v = JNull THEN None ELSE PyStr(v)

----------------------------------------------------------------------------
(* One run of main() *)

NormOff ==
    /\ normIn = JNull /\ normOnce = JNull /\ normTwice = JNull /\ npc = "off"

\* no exception: the value of last_error before the first attempt
NoError == [type |-> "None", code |-> 0]

\* fetch_json is not running
FetchOff ==
    /\ retries = 0 /\ attempt = 0 /\ last_error = NoError /\ raised = NoError
    /\ outcomes = <<>> /\ slept = <<>> /\ fpc = "off"

\* collect_versions_by_ids is not running
CollectOff ==
    /\ wanted_ids = {} /\ batch_size = 0 /\ batch_at = 0 /\ data = {} /\ errors = <<>>
    /\ retried = {} /\ failed_ids = {} /\ cpc = "off"

\* create_prs is not running
UpdateOff ==
    /\ manifest_file = JNull /\ pr_index = JNull /\ pr_pos = 0 /\ git_head = <<>>
    /\ local_branches = <<>> /\ remote_branches = <<>> /\ pulls = {}
    /\ dry_run = FALSE /\ github_token = FALSE /\ produced = {} /\ verdicts = <<>>
    /\ upc = "off"

SideOff == FetchOff /\ CollectOff /\ UpdateOff

\* the state of a run before main() reads anything
FreshRun ==
    /\ pc = "start"
    /\ index_json = JNull
    /\ mod_files = <<>>
    /\ version_data = {}
    /\ project_slug_map = {}
    /\ rows = <<>>
    /\ unmet_required = <<>>
    /\ total_required = 0
    /\ no_dependency_mods = <<>>
    /\ todo = <<>>
    /\ cache_by_version = {}
    /\ changes = <<>>
    /\ skipped = <<>>
    /\ normalized = JNull
    /\ touched = {}
    /\ repairRequests = 0
    /\ writes = 0

Init ==
    /\ args \in ArgsSet
    /\ indexFile \in InputManifests \cup MalformedManifests \cup {NotJson, NoFile}
    /\ outFile = NoFile
    /\ backupFile = NoFile
    /\ run = 1
    /\ original = indexFile
    /\ lost = 0
    /\ FreshRun
    /\ NormOff
    /\ SideOff

\* the lookups of one run that may go unanswered: in the second run the registry answers
\* as it did in the first
LostBudget == IF run = 1 THEN MaxLost ELSE 0

\* the results of looking up ids when at most budget of them get no answer
Answered(ids, budget) == {g \in SUBSET ids : Cardinality(ids \ g) <= budget}

\* lines 406-611, the manifest being loaded and parsed: fetch the version records and the
\* slugs, classify every edge
ReconcileLoaded ==
    \E mods \in {parse_mod_files(indexFile)} :
         /\ index_json' = indexFile
         /\ mod_files' = mods
         /\ \/ /\ mods = <<>>
               /\ pc' = "exit1"
               /\ UNCHANGED <<version_data, project_slug_map, rows, unmet_required,
                              total_required, no_dependency_mods, lost>>
            \/ /\ mods # <<>>
               /\ LostBudget >= 1
               /\ pc' = "aborted"
               /\ lost' = 1
               /\ UNCHANGED <<version_data, project_slug_map, rows, unmet_required,
                              total_required, no_dependency_mods>>
            \/ /\ mods # <<>>
               /\ \E got \in Answered(installed_version_ids(mods), LostBudget) :
                   /\ version_data' = got
                   /\ IF got = {}
                      THEN /\ pc' = "exit2"
                           /\ lost' = Cardinality(installed_version_ids(mods))
                           /\ UNCHANGED <<project_slug_map, rows, unmet_required,
                                          total_required, no_dependency_mods>>
                      ELSE \E ext \in {external_required_project_ids(mods, got)} :
                           \E slugs \in Answered(ext, LostBudget
                                                     - Cardinality(installed_version_ids(mods) \ got)) :
                           \E sorted \in {SortedMods(mods)} :
                           \E allRows \in {RowsFrom(sorted, 1, mods, got, slugs,
                                                    RuntimeKeys(indexFile), args.required_only)} :
                             /\ project_slug_map' = slugs
                             /\ rows' = allRows
                             /\ unmet_required' = UnmetRequired(allRows)
                             /\ total_required' = TotalRequired(allRows)
                             /\ no_dependency_mods' = NoDependencyMods(sorted, got)
                             /\ lost' = Cardinality(installed_version_ids(mods) \ got)
                                        + Cardinality(ext \ slugs)
                             /\ pc' = "reported"

\* lines 403-611: load (load_json_file ends the run on a missing or non-JSON file),
\* parse (an exception of parse_mod_files is caught nowhere), then ReconcileLoaded.
\* got and slugs are what the registry requests returned.  A request that fails
\* with an exception outside the classes caught at lines 178, 185, 220 and 229
\* (fetch_json re-raises whatever lines 56-57 raise) ends the process.
Reconcile ==
    /\ pc = "start"
    /\ \/ /\ load_json_file(indexFile) = <<>>
          /\ pc' = "exit2_load"
          /\ UNCHANGED <<index_json, mod_files, version_data, project_slug_map, rows,
                         unmet_required, total_required, no_dependency_mods, lost>>
       \/ /\ load_json_file(indexFile) # <<>>
          /\ ParseRaises(indexFile)
          /\ index_json' = indexFile
          /\ pc' = "crashed"
          /\ UNCHANGED <<mod_files, version_data, project_slug_map, rows,
                         unmet_required, total_required, no_dependency_mods, lost>>
       \/ /\ load_json_file(indexFile) # <<>>
          /\ ~ParseRaises(indexFile)
          /\ ReconcileLoaded
    /\ UNCHANGED <<args, indexFile, outFile, backupFile, run, todo, cache_by_version, changes,
                   skipped, normalized, original, touched, repairRequests, writes>>
    /\ UNCHANGED restVars


\* lines 613-636: nothing to repair, or set up the repair loop
RepairBegin ==
    /\ pc = "reported"
    /\ IF NeedsRepair(args, unmet_required)
       THEN /\ todo' = GroupOrder(unmet_required)
            /\ cache_by_version' = version_data
            /\ pc' = "repair"
       ELSE /\ pc' = "done"
            /\ UNCHANGED <<todo, cache_by_version>>
    /\ UNCHANGED <<args, indexFile, outFile, backupFile, run, index_json, mod_files,
                   version_data, project_slug_map, rows, unmet_required, total_required,
                   no_dependency_mods, changes, skipped, normalized, original,
                   touched, repairRequests, writes, lost>>
    /\ UNCHANGED restVars

\* the loop's local state, as RepairOne takes it
LoopState ==
    [files |-> FilesOf(index_json), cache |-> cache_by_version, changes |-> changes,
     skipped |-> skipped, touched |-> touched, requests |-> repairRequests, lost |-> lost]

\* lines 638-728: one pass of the loop over the target projects.  okTarget and okCurrent
\* are the outcomes of the registry requests of the pass: answered, or failed with one
\* of the exceptions caught at lines 658, 669 and 701.  A request of the pass that fails
\* with any other exception (fetch_json re-raises whatever lines 56-57 raise) ends the
\* process inside the loop.
RepairGroup ==
    /\ pc = "repair"
    /\ todo # <<>>
    /\ \/ /\ \E okTarget, okCurrent \in BOOLEAN :
               \E out \in {RepairOne(Head(todo), unmet_required, mod_files, LoopState,
                                     args, McVersion(index_json),
                                     infer_loaders(RuntimeKeys(index_json)),
                                     okTarget, okCurrent)} :
                   /\ out.lost <= LostBudget
                   /\ index_json' = Put(index_json, "files", JList(out.files))
                   /\ cache_by_version' = out.cache
                   /\ changes' = out.changes
                   /\ skipped' = out.skipped
                   /\ touched' = out.touched
                   /\ repairRequests' = out.requests
                   /\ lost' = out.lost
          /\ todo' = Tail(todo)
          /\ pc' = pc
       \/ /\ lost + 1 <= LostBudget
          /\ \E out \in {RepairOne(Head(todo), unmet_required, mod_files, LoopState,
                                    args, McVersion(index_json),
                                    infer_loaders(RuntimeKeys(index_json)), TRUE, TRUE)} :
                out.requests > repairRequests
          /\ repairRequests' = repairRequests + 1
          /\ lost' = lost + 1
          /\ pc' = "aborted"
          /\ UNCHANGED <<index_json, cache_by_version, changes, skipped, touched, todo>>
    /\ UNCHANGED <<args, indexFile, outFile, backupFile, run, mod_files, version_data,
                   project_slug_map, rows, unmet_required, total_required, no_dependency_mods,
                   normalized, original, writes>>
    /\ UNCHANGED restVars

\* line 735: a backup is due
BackupDue(a) == a.write_same /\ ~a.no_backup

\* lines 730-733: the loop is over; count the issues without project id, normalize
RepairEnd ==
    /\ pc = "repair"
    /\ todo = <<>>
    /\ skipped' = IF UnresolvedWithoutProject(unmet_required) > 0
                  THEN Append(skipped, SkipEntry(None, "dependency entries without project_id", <<>>))
                  ELSE skipped
    /\ normalized' = normalize_modrinth_index(index_json)
    /\ pc' = IF BackupDue(args) THEN "backup" ELSE "write"
    /\ UNCHANGED <<args, indexFile, outFile, backupFile, run, index_json, mod_files,
                   version_data, project_slug_map, rows, unmet_required, total_required,
                   no_dependency_mods, todo, cache_by_version, changes, original,
                   touched, repairRequests, writes, lost>>
    /\ UNCHANGED restVars

\* variant: the backup is taken from the manifest in memory
BackupOfMemory(onDisk, inMemory) == inMemory

\* line 739: what the backup holds: the file at --index, read again
BackupContent(onDisk, inMemory) == onDisk

\* lines 735-742
WriteBackup ==
    /\ pc = "backup"
    /\ backupFile' = BackupContent(indexFile, index_json)
    /\ pc' = "write"
    /\ UNCHANGED <<args, indexFile, outFile, run, index_json, mod_files, version_data,
                   project_slug_map, rows, unmet_required, total_required, no_dependency_mods,
                   todo, cache_by_version, changes, skipped, normalized, original,
                   touched, repairRequests, writes, lost>>
    /\ UNCHANGED restVars

\* lines 744-748
WriteIndex ==
    /\ pc = "write"
    /\ IF args.write_same
       THEN indexFile' = normalized /\ UNCHANGED outFile
       ELSE outFile' = normalized /\ UNCHANGED indexFile
    /\ writes' = writes + 1
    /\ pc' = "done"
    /\ UNCHANGED <<args, backupFile, run, index_json, mod_files, version_data,
                   project_slug_map, rows, unmet_required, total_required, no_dependency_mods,
                   todo, cache_by_version, changes, skipped, normalized, original,
                   touched, repairRequests, lost>>
    /\ UNCHANGED restVars

\* the manifest the run wrote
Written == IF args.write_same THEN indexFile ELSE outFile

\* the same command again, on the manifest the first run wrote, every request of the
\* first run having been answered
Rerun ==
    /\ pc = "done"
    /\ run = 1
    /\ writes = 1
    /\ lost = 0
    /\ run' = 2
    /\ indexFile' = Written
    /\ original' = Written
    /\ outFile' = NoFile
    /\ backupFile' = NoFile
    /\ pc' = "start"
    /\ index_json' = JNull
    /\ mod_files' = <<>>
    /\ version_data' = {}
    /\ project_slug_map' = {}
    /\ rows' = <<>>
    /\ unmet_required' = <<>>
    /\ total_required' = 0
    /\ no_dependency_mods' = <<>>
    /\ todo' = <<>>
    /\ cache_by_version' = {}
    /\ changes' = <<>>
    /\ skipped' = <<>>
    /\ normalized' = JNull
    /\ touched' = {}
    /\ repairRequests' = 0
    /\ writes' = 0
    /\ UNCHANGED <<args, lost>>
    /\ UNCHANGED restVars

Next ==
    \/ Reconcile
    \/ RepairBegin
    \/ RepairGroup
    \/ RepairEnd
    \/ WriteBackup
    \/ WriteIndex
    \/ Rerun

Spec == Init /\ [][Next]_vars

----------------------------------------------------------------------------
(* normalize_modrinth_index applied twice *)

NormEntries ==
    <<JObj(<<<<"downloads", JList(<<JStr("ext/files/q.jar")>>)>>,
             <<"note", JStr("pinned")>>,
             <<"path", JStr("mods/a.jar")>>,
             <<"env", JObj(<<<<"server", JStr("required")>>, <<"side", JStr("both")>>,
                             <<"client", JStr("optional")>>>>)>>,
             <<"hashes", JObj(<<<<"md5", JStr("m")>>, <<"sha1", JStr("h1")>>,
                                <<"sha512", JStr("h5")>>>>)>>,
             <<"fileSize", JNum(1)>>>>),
      JObj(<<<<"downloads", JList(<<JStr("cdn/data/PQ/versions/q1/q.jar")>>)>>,
             <<"fileSize", JNum(2)>>>>),
      JObj(<<<<"hashes", JNull>>, <<"path", JStr("Mods/z.jar")>>>>),
      JObj(<<<<"path", JStr("mods/q.jar")>>,
             <<"hashes", JObj(<<<<"sha512", JStr("h5")>>, <<"sha1", JStr("h1")>>>>)>>,
             <<"env", JObj(<<<<"client", JStr("required")>>, <<"server", JStr("required")>>>>)>>,
             <<"downloads", JList(<<JStr("cdn/data/PQ/versions/q1/q.jar")>>)>>,
             <<"fileSize", JNum(17)>>>>),
      JObj(<<<<"env", JStr("client")>>, <<"path", JNull>>>>)>>

\* the top-level objects around a files list
NormTops(files) ==
    {JObj(<<<<"files", JList(files)>>,
            <<"dependencies", JObj(<<<<"minecraft", JStr("1.21.1")>>, <<"fabric", JStr("0.16.0")>>,
                                     <<"neoforge", JStr("21.1.1")>>>>)>>,
            <<"custom", JStr("c")>>, <<"name", JStr("pack")>>, <<"formatVersion", JNum(1)>>>>),
     JObj(<<<<"game", JStr("minecraft")>>, <<"formatVersion", JNum(1)>>,
            <<"versionId", JStr("1.0")>>, <<"name", JStr("pack")>>, <<"summary", JNull>>,
            <<"files", JList(files)>>,
            <<"dependencies", JObj(<<<<"neoforge", JStr("21.1.1")>>,
                                     <<"minecraft", JStr("1.21.1")>>>>)>>>>)}

NormManifests ==
    UNION {NormTops(files) : files \in DistinctSeqs(NormEntries, MaxNormFiles)}
    \cup {JObj(<<<<"dependencies", JStr("none")>>, <<"files", JStr("none")>>>>),
          JObj(<<<<"name", JStr("pack")>>>>)}

\* main() is not running
MainOff ==
    /\ args = DefaultArgs
    /\ indexFile = NoFile /\ outFile = NoFile /\ backupFile = NoFile /\ original = NoFile
    /\ pc = "off" /\ run = 0 /\ lost = 0
    /\ index_json = JNull /\ mod_files = <<>> /\ version_data = {} /\ project_slug_map = {}
    /\ rows = <<>> /\ unmet_required = <<>> /\ total_required = 0 /\ no_dependency_mods = <<>>
    /\ todo = <<>> /\ cache_by_version = {} /\ changes = <<>> /\ skipped = <<>>
    /\ normalized = JNull /\ touched = {} /\ repairRequests = 0 /\ writes = 0

InitNorm ==
    /\ MainOff
    /\ SideOff
    /\ normIn \in NormManifests
    /\ normOnce = JNull
    /\ normTwice = JNull
    /\ npc = "start"

NormalizeOnce ==
    /\ npc = "start"
    /\ normOnce' = normalize_modrinth_index(normIn)
    /\ npc' = "once"
    /\ UNCHANGED <<normIn, normTwice>>
    /\ UNCHANGED mainVars
    /\ UNCHANGED sideVars

NormalizeTwice ==
    /\ npc = "once"
    /\ normTwice' = normalize_modrinth_index(normOnce)
    /\ npc' = "twice"
    /\ UNCHANGED <<normIn, normOnce>>
    /\ UNCHANGED mainVars
    /\ UNCHANGED sideVars

NextNorm ==
    \/ NormalizeOnce
    \/ NormalizeTwice

SpecNorm == InitNorm /\ [][NextNorm]_vars

----------------------------------------------------------------------------
(* Properties checked under SpecNorm *)

\* C7: normalization is idempotent: normalizing the output of normalize_modrinth_index
\* gives that output again, key order and entry order included.
NormalizeIdempotent == npc = "twice" => normTwice = normOnce

----------------------------------------------------------------------------
(* Properties checked under Spec *)

\* reconciliation of this run is complete
Reconciled == pc \in {"reported", "repair", "backup", "write", "done"}

\* the repair loop of this run has been entered
Repairing == pc \in {"repair", "backup", "write"} \/ (pc = "done" /\ writes = 1)

\* the installed version ids of a project, read off the download URLs of the manifest
InstalledVidsOf(pid) ==
    {mod_files[i].version_id : i \in {j \in 1..Len(mod_files) : mod_files[j].project_id = pid}}

\* the required edges with a project id and a pinned version id whose target project is
\* installed, as (consumer, edge) pairs over the resolved entries
PinnedInstalledEdges ==
    UNION {{<<mod_files[i].path, d>> :
               d \in {e \in SeqToSet(RegistryVersion[mod_files[i].version_id].dependencies) :
                         /\ e.dependency_type = "required"
                         /\ e.project_id # None
                         /\ e.version_id # None
                         /\ InstalledVidsOf(e.project_id) # {}}} :
           i \in {j \in 1..Len(mod_files) : mod_files[j].version_id \in version_data}}

RowsOfEdge(consumer, d) ==
    {i \in 1..Len(rows) : rows[i].consumer = consumer /\ rows[i].dep = d}

\* C2: a required edge that names a project and an exact version, the project being
\* installed, is OK exactly when that version id is one of the project's installed
\* version ids, and MISSING otherwise.
PinnedEdgeNeedsExactVersion ==
    Reconciled =>
        \A ce \in PinnedInstalledEdges :
            /\ RowsOfEdge(ce[1], ce[2]) # {}
            /\ \A i \in RowsOfEdge(ce[1], ce[2]) :
                  rows[i].state = IF ce[2].version_id \in InstalledVidsOf(ce[2].project_id)
                                  THEN "OK" ELSE "MISSING"

\* C2 witness: a pinned edge whose project is installed under another version only
PinnedEdgeOtherVersionSeen ==
    /\ Reconciled
    /\ \E ce \in PinnedInstalledEdges :
          /\ ce[2].version_id \notin InstalledVidsOf(ce[2].project_id)
          /\ \E i \in RowsOfEdge(ce[1], ce[2]) : rows[i].state = "MISSING"

\* the projects that two required edges of resolved entries pin to different versions,
\* with the set of versions pinned
PinnedVersionsOf(pid) ==
    {rows[i].dep.version_id :
        i \in {j \in 1..Len(rows) : /\ rows[j].dep_type = "required"
                                    /\ rows[j].dep.project_id = pid
                                    /\ rows[j].dep.version_id # None}}
ConflictingProjects ==
    {pid \in {rows[i].dep.project_id : i \in 1..Len(rows)} \ {None} :
        Cardinality(PinnedVersionsOf(pid)) > 1}

\* C3: when two consumers pin project P to different versions, a repair run skips P
\* with a conflict entry naming the versions, and adds or replaces no entry for P,
\* also when one of the versions is the one installed.
ConflictLeavesProjectAlone ==
    (pc = "done" /\ writes = 1) =>
        \A pid \in ConflictingProjects :
            /\ \A i \in 1..Len(changes) : changes[i].project # pid
            /\ \E i \in 1..Len(skipped) :
                  /\ skipped[i].project = pid
                  /\ skipped[i].reason = "conflicting required versions"
                  /\ SeqToSet(skipped[i].versions) = PinnedVersionsOf(pid)

\* C1: the second run, on the manifest the first run wrote and with the registry
\* answering as before, leaves a manifest identical to the one it read.
RepairIdempotent ==
    (run = 2 /\ pc = "done" /\ writes = 1) => Written = original

\* C5: a repair run whose reconciliation finds no unmet required edge leaves files[]
\* as loaded, writes no file and issues no further registry request.
NothingUnmetNothingDone ==
    (Reconciled /\ args.fix_index /\ unmet_required = <<>>) =>
        /\ index_json = original
        /\ indexFile = original
        /\ outFile = NoFile
        /\ backupFile = NoFile
        /\ writes = 0
        /\ repairRequests = 0
        /\ changes = <<>>

\* C5 witness: a finished repair run with required edges, all of them met
AllMetRepairRunDone ==
    /\ pc = "done"
    /\ args.fix_index
    /\ total_required > 0
    /\ unmet_required = <<>>

PathAt(files, i) == Get(files[i], "path", JNull)

\* C6: once repair has replaced or added an entry, that entry shares its path with no
\* other entry of files[].
NewEntryPathUnique ==
    Repairing =>
        \A i \in touched : \A j \in 1..Len(FilesOf(index_json)) :
            j # i => PathAt(FilesOf(index_json), j) # PathAt(FilesOf(index_json), i)

\* the step of the repair loop for project pid has run to its end
LoopStepOf(pid) ==
    /\ pc = "repair" /\ todo # <<>> /\ Head(todo) = pid
    /\ pc' = "repair" /\ todo' = Tail(todo)

\* the pinned target of pid's group, when the group pins exactly one version
PinnedTargetOf(pid) == RequiredVids(GroupIssues(unmet_required, pid))[1]

\* pid is installed at a version other than the one pinned target of its group, the
\* target has a usable file and was published before the installed version, and the run
\* holds both records after the step (the installed one is needed only without the flag)
DowngradeCase(pid) ==
    /\ project_to_entries(mod_files, pid) # <<>>
    /\ Len(RequiredVids(GroupIssues(unmet_required, pid))) = 1
    /\ PinnedTargetOf(pid) # FirstEntry(project_to_entries(mod_files, pid)).version_id
    /\ PinnedTargetOf(pid) \in cache_by_version'
    /\ index_file_from_version(RegistryVersion[PinnedTargetOf(pid)]) # JNull
    /\ args.allow_downgrade_deps
         \/ FirstEntry(project_to_entries(mod_files, pid)).version_id \in cache_by_version'
    /\ RegistryVersion[PinnedTargetOf(pid)].date_published # None
    /\ RegistryVersion[FirstEntry(project_to_entries(mod_files, pid)).version_id].date_published
         # None
    /\ StrLess(RegistryVersion[PinnedTargetOf(pid)].date_published,
               RegistryVersion[FirstEntry(project_to_entries(mod_files, pid)).version_id]
                   .date_published)

\* C4: in the step of the repair loop for a project installed at a version published
\* later than the resolved target (both publish dates known to the run): without
\* --allow-downgrade-deps files[] stays as it is and one "downgrade blocked" entry for the
\* project is added to the skip list; with the flag the project's first entry is
\* overwritten in place by the entry built from the target and nothing is skipped.
DowngradeProtected ==
    [][\A pid \in {"PA", "PB", "PL", "PQ", "PR", "PS"} :
         (LoopStepOf(pid) /\ DowngradeCase(pid)) =>
            IF args.allow_downgrade_deps
            THEN /\ FilesOf(index_json') =
                      [FilesOf(index_json) EXCEPT
                          ![FirstEntry(project_to_entries(mod_files, pid)).file_index] =
                              index_file_from_version(RegistryVersion[PinnedTargetOf(pid)])]
                 /\ skipped' = skipped
                 /\ Len(changes') = Len(changes) + 1
            ELSE /\ FilesOf(index_json') = FilesOf(index_json)
                 /\ changes' = changes
                 /\ skipped' = Append(skipped,
                        SkipEntry(pid, "downgrade blocked",
                                  <<FirstEntry(project_to_entries(mod_files, pid)).version_id,
                                    PinnedTargetOf(pid)>>))]_vars

\* C4 witness: a finished repair run that blocked a downgrade of an installed project
\* and left the project's entry as it was loaded
DowngradeBlockedSeen ==
    /\ pc = "done" /\ writes = 1
    /\ ~args.allow_downgrade_deps
    /\ \E i \in 1..Len(skipped) : \E k \in 1..Len(mod_files) :
          /\ skipped[i].reason = "downgrade blocked"
          /\ mod_files[k].project_id = skipped[i].project
          /\ skipped[i].versions[1] = mod_files[k].version_id
          /\ StrLess(RegistryVersion[skipped[i].versions[2]].date_published,
                     RegistryVersion[skipped[i].versions[1]].date_published)
          /\ FilesOf(index_json)[mod_files[k].file_index]
               = FilesOf(original)[mod_files[k].file_index]

\* the positions of the loaded files[] that repair has not overwritten
Untouched == (1..Len(FilesOf(original))) \ touched

\* the entries loaded at positions i and j are written in this order
WrittenInOrder(i, j) ==
    \E ki, kj \in 1..Len(FilesOf(Written)) :
        /\ ki < kj
        /\ FilesOf(Written)[ki] = ordered_file_entry(FilesOf(original)[i])
        /\ FilesOf(Written)[kj] = ordered_file_entry(FilesOf(original)[j])

\* C8 as stated: in the manifest a repair run wrote, any two entries that repair neither
\* replaced nor added stand in the order they had in the input manifest.
UntouchedKeepOrderInWritten ==
    (pc = "done" /\ writes = 1) =>
        \A i, j \in Untouched : i < j => WrittenInOrder(i, j)

\* C8: inside the repair loop every entry that repair neither replaced nor added stays at
\* its position of the input manifest, replacements happen in place and additions go to
\* the end; the manifest written is that list sorted by path, so two such entries are
\* written in their input order when their paths ascend in the input, and in the
\* opposite order when their paths descend.
UntouchedKeepPlaceUntilSorted ==
    /\ Repairing =>
         /\ Len(FilesOf(index_json)) >= Len(FilesOf(original))
         /\ \A i \in Untouched : FilesOf(index_json)[i] = FilesOf(original)[i]
         /\ \A i \in 1..Len(FilesOf(index_json)) :
               i > Len(FilesOf(original)) => i \in touched
    /\ (pc = "done" /\ writes = 1) =>
         \A i, j \in Untouched :
            /\ (i < j /\ ~PathKeyLess(FilesOf(original)[j], FilesOf(original)[i]))
                  => WrittenInOrder(i, j)
            /\ (i < j /\ PathKeyLess(FilesOf(original)[j], FilesOf(original)[i]))
                  => WrittenInOrder(j, i)

\* C8 witness: a finished repair run that replaced an entry in place and left two
\* entries alone whose paths ascend in the input
ReplacedBesideTwoUntouched ==
    /\ pc = "done" /\ writes = 1
    /\ \E t \in touched : t <= Len(FilesOf(original))
    /\ \E i, j \in Untouched :
          /\ i < j
          /\ PathKeyLess(FilesOf(original)[i], FilesOf(original)[j])
          /\ WrittenInOrder(i, j)

\* the entries of the change list and of the skip list that name project pid
EntriesFor(pid) ==
    Cardinality({i \in 1..Len(changes) : changes[i].project = pid})
    + Cardinality({i \in 1..Len(skipped) : skipped[i].project = pid})

\* C9: a run that has unmet required edges to repair goes through every group, each
\* group leaving one entry in the change list or one in the skip list whatever failed
\* for it, and ends only after it has written the manifest.
FailureIsolated ==
    NeedsRepair(args, unmet_required) =>
        /\ pc \in {"reported", "repair", "backup", "write", "done"}
        /\ pc \in {"repair", "backup", "write", "done"} =>
              \A pid \in SeqToSet(GroupOrder(unmet_required)) \ SeqToSet(todo) :
                  EntriesFor(pid) = 1
        /\ pc \in {"backup", "write", "done"} => todo = <<>>
        /\ pc = "done" => writes = 1

\* C10: the manifest is written at most once per run; a backup, when there is one, holds
\* the manifest as it was before the run; and when the output path is the input path and
\* backups are on, the backup is there by the time the manifest is overwritten.
BackupBeforeOverwrite ==
    /\ writes <= 1
    /\ indexFile # original => writes = 1
    /\ backupFile # NoFile => backupFile = original
    /\ (BackupDue(args) /\ writes = 1) => backupFile = original

\* C10 witness: a finished run that overwrote its input with a changed manifest after
\* backing it up
OverwrittenAfterBackup ==
    /\ pc = "done" /\ writes = 1
    /\ BackupDue(args)
    /\ changes # <<>>
    /\ indexFile # original
    /\ backupFile = original

----------------------------------------------------------------------------
(* How a run ends *)

\* main() has ended
Terminal == pc \in {"exit1", "exit2", "exit2_load", "crashed", "aborted", "done"}

\* the exit status of the process: n for SystemExit(n) (lines 123-128, 410, 427), 1 for an
\* exception nothing catches, 0 when main() returns
ExitStatus ==
    CASE pc = "done" -> 0
      [] pc \in {"exit1", "crashed", "aborted"} -> 1
      [] pc \in {"exit2", "exit2_load"} -> 2

\* the manifest read is JSON, and its root is not an object or its "files" is there and
\* is not a list
Malformed(index) ==
    IF load_json_file(index) = <<>> THEN FALSE
    ELSE IF ~IsObj(index) THEN TRUE
    ELSE Has(index, "files") /\ ~IsList(Get(index, "files", JNull))

\* the manifest cannot be read, or is malformed
BadManifest == load_json_file(original) = <<>> \/ Malformed(original)

\* C11: a run on a manifest whose root is not an object, or whose "files" is present and
\* not a list, ends as a run on a bad manifest ends (not as a run on a well-formed one:
\* no installed entries, no registry data, completed), and writes neither the manifest
\* nor a backup.
MalformedManifestRejected ==
    (Malformed(original) /\ pc # "start") =>
        /\ pc \in {"exit2_load", "crashed"}
        /\ writes = 0
        /\ indexFile = original
        /\ outFile = NoFile
        /\ backupFile = NoFile

\* C14: a run ends in the state of its case: unreadable or malformed manifest, no
\* installed entries, no registry version data, and in every other case completion; the
\* exit status is zero for completion only.
ExitSignalling ==
    Terminal =>
        /\ BadManifest => pc \in {"exit2_load", "crashed"}
        /\ (~BadManifest /\ mod_files = <<>>) => pc = "exit1"
        /\ (~BadManifest /\ mod_files # <<>> /\ version_data = {}) => pc = "exit2"
        /\ (~BadManifest /\ mod_files # <<>> /\ version_data # {}) => pc = "done"
        /\ ExitStatus = 0 <=> pc = "done"

----------------------------------------------------------------------------
(* Classification of the edges *)

\* C16: an edge of any kind whose target project is not installed and whose project's slug
\* is a key of the manifest's "dependencies" is provided, and its state is OK.
RuntimeSlugProvides ==
    Reconciled =>
        \A i \in 1..Len(rows) :
            (/\ rows[i].dep.project_id # None
             /\ rows[i].dep.project_id \notin DOMAIN installed_projects(mod_files, version_data)
             /\ RegistrySlug[rows[i].dep.project_id] \in RuntimeKeys(index_json))
                => (rows[i].provided /\ rows[i].state = "OK")

\* the state names of the specification's SatisfactionState for the labels of lines 536-545
SatisfactionState(label) ==
    CASE label = "OPTIONAL" -> "OPTIONAL_UNMET"
      [] label = "INCOMPATIBLE" -> "INCOMPATIBLE_PRESENT"
      [] OTHER -> label

\* C17: the state of an edge depends on (provided, kind) only: OK when provided, whatever
\* the kind; else MISSING for required, OPTIONAL_UNMET for optional, INCOMPATIBLE_PRESENT
\* for incompatible, UNMET for any other kind.
StateFromProvidedAndKind ==
    Reconciled =>
        \A i \in 1..Len(rows) :
            SatisfactionState(rows[i].state) =
                IF rows[i].provided THEN "OK"
                ELSE CASE rows[i].dep_type = "required" -> "MISSING"
                       [] rows[i].dep_type = "optional" -> "OPTIONAL_UNMET"
                       [] rows[i].dep_type = "incompatible" -> "INCOMPATIBLE_PRESENT"
                       [] OTHER -> "UNMET"

\* C17 witness: a provided edge of kind incompatible that is OK, beside edges that are not
\* provided, of kind optional and of a kind outside the three named ones
ProvidedIncompatibleSeen ==
    /\ Reconciled
    /\ \E i \in 1..Len(rows) :
          rows[i].dep_type = "incompatible" /\ rows[i].provided /\ rows[i].state = "OK"
    /\ \E i \in 1..Len(rows) :
          rows[i].dep_type = "optional" /\ ~rows[i].provided /\ rows[i].state = "OPTIONAL"
    /\ \E i \in 1..Len(rows) :
          rows[i].dep_type = "embedded" /\ rows[i].state \in {"OK", "UNMET"}

\* the positions of mod_files whose version record was resolved
ResolvedMods == {i \in 1..Len(mod_files) : mod_files[i].version_id \in version_data}

\* the required edges of the resolved entries, as (entry, edge position) pairs
RequiredEdges ==
    UNION {{<<i, j>> :
               j \in {k \in 1..Len(RegistryVersion[mod_files[i].version_id].dependencies) :
                         RegistryVersion[mod_files[i].version_id].dependencies[k].dependency_type
                             = "required"}} :
           i \in ResolvedMods}

\* the rows of required edges whose state is not OK, in order
UnmetRows == SelectSeq(rows, LAMBDA r : r.dep_type = "required" /\ r.state # "OK")

\* C18: after reconciliation total_required is the number of required edges of the
\* resolved entries; unmet_required holds one issue per required row whose state is not
\* OK, in row order, and nothing else; a resolved entry without dependencies is in
\* no_dependency_mods and has no row and no issue.
CountsMatchEdges ==
    Reconciled =>
        /\ total_required = Cardinality(RequiredEdges)
        /\ Len(unmet_required) = Len(UnmetRows)
        /\ \A k \in 1..Len(unmet_required) :
              /\ unmet_required[k].consumer_mod_path = UnmetRows[k].consumer
              /\ unmet_required[k].dep_project_id = UnmetRows[k].dep.project_id
              /\ unmet_required[k].dep_version_id = UnmetRows[k].dep.version_id
        /\ \A i \in ResolvedMods :
              RegistryVersion[mod_files[i].version_id].dependencies = <<>> =>
                  /\ mod_files[i].path \in SeqToSet(no_dependency_mods)
                  /\ \A k \in 1..Len(rows) : rows[k].consumer # mod_files[i].path
                  /\ \A k \in 1..Len(unmet_required) :
                        unmet_required[k].consumer_mod_path # mod_files[i].path
        /\ \A k \in 1..Len(no_dependency_mods) :
              \E i \in ResolvedMods :
                  /\ mod_files[i].path = no_dependency_mods[k]
                  /\ RegistryVersion[mod_files[i].version_id].dependencies = <<>>

\* C18 witness: a reconciled run with a met required edge, an unmet one, an unmet edge of
\* another kind and an entry without dependencies
MixedEdgesCounted ==
    /\ Reconciled
    /\ ~args.required_only
    /\ Len(unmet_required) > 0
    /\ total_required > Len(unmet_required)
    /\ \E i \in 1..Len(rows) : rows[i].dep_type # "required" /\ rows[i].state # "OK"
    /\ no_dependency_mods # <<>>

----------------------------------------------------------------------------
(* What one step of the repair loop does to files[] *)

\* the lowest file_index among the installed entries of project pid
LowestIndexOf(pid) ==
    CHOOSE n \in {mod_files[i].file_index :
                      i \in {j \in 1..Len(mod_files) : mod_files[j].project_id = pid}} :
        \A i \in 1..Len(mod_files) :
            mod_files[i].project_id = pid => n <= mod_files[i].file_index

\* the entry built for the version the newest change description names
AppliedEntry == index_file_from_version(RegistryVersion[changes'[Len(changes')].version])

\* C19: a step of the repair loop that applies a target for project P records one change
\* description; when P is installed it overwrites exactly the position of P's entry of
\* lowest manifest index and keeps the length of files[]; otherwise it appends exactly one
\* entry and changes no position.  A step that applies nothing leaves files[] alone.
ApplyReplacesLowestOrAppends ==
    [][(pc = "repair" /\ todo # <<>> /\ pc' = "repair") =>
         IF changes' # changes
         THEN /\ Len(changes') = Len(changes) + 1
              /\ SubSeq(changes', 1, Len(changes)) = changes
              /\ changes'[Len(changes')].project = Head(todo)
              /\ IF InstalledVidsOf(Head(todo)) # {}
                 THEN /\ changes'[Len(changes')].kind = "updated"
                      /\ FilesOf(index_json') =
                           [FilesOf(index_json) EXCEPT ![LowestIndexOf(Head(todo))] = AppliedEntry]
                 ELSE /\ changes'[Len(changes')].kind = "added"
                      /\ FilesOf(index_json') = Append(FilesOf(index_json), AppliedEntry)
         ELSE FilesOf(index_json') = FilesOf(index_json)]_vars

\* C19 witness: a finished repair run that overwrote the lower of two installed entries
\* of a project and appended an entry for another project
LowerOfTwoReplacedAndOneAdded ==
    /\ pc = "done" /\ writes = 1
    /\ \E c \in 1..Len(changes) :
          /\ changes[c].kind = "updated"
          /\ Cardinality({i \in 1..Len(mod_files) :
                             mod_files[i].project_id = changes[c].project}) = 2
          /\ LowestIndexOf(changes[c].project) \in touched
          /\ FilesOf(index_json)[LowestIndexOf(changes[c].project)]
               = index_file_from_version(RegistryVersion[changes[c].version])
    /\ \E c \in 1..Len(changes) : changes[c].kind = "added"
    /\ Len(FilesOf(index_json)) = Len(FilesOf(original)) + 1

----------------------------------------------------------------------------
(* The written manifest, classified again *)

\* the rows of a reconciliation of the manifest the run wrote, every request answered
ReclassifiedRows ==
    RowsFrom(SortedMods(parse_mod_files(Written)), 1, parse_mod_files(Written),
             installed_version_ids(parse_mod_files(Written)),
             external_required_project_ids(parse_mod_files(Written),
                                           installed_version_ids(parse_mod_files(Written))),
             RuntimeKeys(Written), FALSE)

\* the states that the rows again give to the required edge dep of consumer
StatesAgain(again, consumer, dep) ==
    {again[k].state : k \in {n \in 1..Len(again) :
                                again[n].consumer = consumer /\ again[n].dep = dep}}

\* C20: after a repair run in which every request was answered, classifying the written
\* manifest again finds OK every required edge of the issue group of each project the run
\* changed, and finds MISSING no required edge that was OK before the run.
RepairKeepsEdgesMet ==
    (pc = "done" /\ writes = 1 /\ lost = 0) =>
        \A again \in {ReclassifiedRows} :
            /\ \A c \in 1..Len(changes) : \A i \in 1..Len(rows) :
                  (/\ rows[i].dep_type = "required"
                   /\ rows[i].state # "OK"
                   /\ rows[i].dep.project_id = changes[c].project)
                      => StatesAgain(again, rows[i].consumer, rows[i].dep) = {"OK"}
            /\ \A i \in 1..Len(rows) :
                  (rows[i].dep_type = "required" /\ rows[i].state = "OK")
                      => "MISSING" \notin StatesAgain(again, rows[i].consumer, rows[i].dep)

----------------------------------------------------------------------------
(* fetch_json: one call, every attempt's outcome chosen by the network *)

MaxRetries == 4

\* what one attempt can do: a decoded answer, an HTTPError with a status, a URLError, a
\* TimeoutError, or an exception of another class (a dropped connection while the answer
\* is read, a body that is not JSON)
HttpStatuses == {404, 429, 500, 501, 503}
AttemptOutcomes ==
    {[type |-> "ok", code |-> 200]}
    \cup {[type |-> "HTTPError", code |-> c] : c \in HttpStatuses}
    \cup {[type |-> t, code |-> 0] : t \in {"URLError", "TimeoutError", "ValueError"}}

RECURSIVE Pow2(_)
Pow2(n) == IF n = 0 THEN 1 ELSE 2 * Pow2(n - 1)

\* min(8.0, 0.6 * 2**attempt) and min(5.0, 0.5 * 2**attempt), in tenths of a second
HttpBackoff(n) == MinOf(80, 6 * Pow2(n))
NetBackoff(n) == MinOf(50, 5 * Pow2(n))

AnyServerError(code) == code = 429 \/ code \in 500..599
\* exc.code in {429, 500, 502, 503, 504}
RetriedStatus(code) == code \in {429, 500, 502, 503, 504}

\* the waiting time before the next attempt, <<>> when the exception is raised instead
BackoffFor(o, n, r) ==
    IF o.type = "HTTPError"
    THEN IF RetriedStatus(o.code) /\ n < r THEN <<HttpBackoff(n)>> ELSE <<>>
    ELSE IF o.type \in {"URLError", "TimeoutError"}
         THEN IF n < r THEN <<NetBackoff(n)>> ELSE <<>>
         ELSE <<>>

InitFetch ==
    /\ MainOff
    /\ NormOff
    /\ CollectOff
    /\ UpdateOff
    /\ retries \in 0..MaxRetries
    /\ attempt = 0
    /\ last_error = NoError
    /\ raised = NoError
    /\ outcomes = <<>>
    /\ slept = <<>>
    /\ fpc = "loop"

\* one pass of the for loop: the request, then return, sleep and continue, or raise.
\* With retries >= 0 the loop never runs out: the pass with attempt = retries returns or
\* raises, so the statements after the loop are not reached.
FetchAttempt ==
    /\ fpc = "loop"
    /\ attempt <= retries
    /\ \E o \in AttemptOutcomes :
          /\ outcomes' = Append(outcomes, o)
          /\ IF o.type = "ok"
             THEN /\ fpc' = "returned"
                  /\ UNCHANGED <<attempt, last_error, raised, slept>>
             ELSE /\ last_error' = IF o.type = "ValueError" THEN last_error ELSE o
                  /\ IF BackoffFor(o, attempt, retries) # <<>>
                     THEN /\ slept' = slept \o BackoffFor(o, attempt, retries)
                          /\ attempt' = attempt + 1
                          /\ UNCHANGED <<raised, fpc>>
                     ELSE /\ raised' = o
                          /\ fpc' = "raised"
                          /\ UNCHANGED <<attempt, slept>>
    /\ UNCHANGED retries
    /\ UNCHANGED <<mainVars, normVars, collectVars, updateVars>>

NextFetch == FetchAttempt

SpecFetch == InitFetch /\ [][NextFetch]_vars

\* an error of the kinds the code retries
Transient(o) ==
    \/ o.type = "HTTPError" /\ o.code \in {429, 500, 502, 503, 504}
    \/ o.type \in {"URLError", "TimeoutError"}

\* HTTP 429, any 5xx status, or a network error
RateLimitServerOrNetwork(o) ==
    \/ o.type = "HTTPError" /\ (o.code = 429 \/ (o.code >= 500 /\ o.code <= 599))
    \/ o.type \in {"URLError", "TimeoutError"}

\* the shape every call has: at most retries + 1 attempts, a wait of 0.1 to 8 seconds after
\* each attempt but the last, the last outcome is what the call returns or raises
FetchShape ==
    /\ Len(outcomes) <= retries + 1
    /\ Len(slept) = (IF fpc = "loop" THEN Len(outcomes) ELSE Len(outcomes) - 1)
    /\ \A k \in 1..Len(slept) : slept[k] >= 1 /\ slept[k] <= 80
    /\ fpc = "loop" => Len(outcomes) <= retries
    /\ fpc = "returned" => outcomes[Len(outcomes)].type = "ok"
    /\ fpc = "raised" => raised = outcomes[Len(outcomes)] /\ raised.type # "ok"

(* C13 (as stated): fetch_json makes at most retries + 1 attempts; HTTP 429, any 5xx  *)
(* status and network errors are retried with a wait until the attempts are used up,  *)
(* then the last error is raised; any other error is raised on the attempt where it   *)
(* occurs.                                                                             *)
FetchRetriesAnyServerError ==
    fpc # "off" =>
        /\ FetchShape
        /\ \A k \in 1..Len(slept) : RateLimitServerOrNetwork(outcomes[k])
        /\ (fpc = "raised" /\ RateLimitServerOrNetwork(raised)) =>
               Len(outcomes) = retries + 1

(* C13 (amended): fetch_json makes at most retries + 1 attempts; HTTP 429, 500, 502,  *)
(* 503 and 504 and network errors (URLError, TimeoutError) are retried, each after a  *)
(* wait, until the attempts are used up, then the last error is raised; any other     *)
(* error, the other 5xx statuses included, is raised on the attempt where it occurs.  *)
FetchRetriesTransientOnly ==
    fpc # "off" =>
        /\ FetchShape
        /\ \A k \in 1..Len(slept) : Transient(outcomes[k])
        /\ (fpc = "raised" /\ Transient(raised)) => Len(outcomes) = retries + 1

\* a call with two retries or more that used every attempt, on a retried status and on a
\* network error, and raised the last error
FetchExhausted ==
    /\ fpc = "raised"
    /\ retries >= 2
    /\ Len(outcomes) = retries + 1
    /\ raised = [type |-> "HTTPError", code |-> 503]
    /\ \E k \in 1..Len(slept) : outcomes[k].type = "URLError"
    /\ \E k \in 1..Len(slept) : outcomes[k].type = "HTTPError"

----------------------------------------------------------------------------
(* collect_versions_by_ids: one call, the outcome of every fetch_json call chosen by *)
(* the registry and the network                                                      *)

MaxIds == 3
MaxBatch == 2

VersionIdPool == {"a1", "b1", "l1", "l3", "q1"}

\* ids = sorted(wanted_ids)
SortedIds == SortedStrs(wanted_ids)

\* size = max(1, batch_size)
BatchSize == IF batch_size >= 1 THEN batch_size ELSE 1

\* batch = ids[i : i + size]
BatchAt(at) == SubSeq(SortedIds, at + 1, MinOf(at + BatchSize, Len(SortedIds)))

\* f"versions batch starting at {i}: ..." and f"version/{vid}: ..."
BatchError(at, msg) == [where |-> "versions batch starting at", at |-> at, id |-> None, msg |-> msg]
ItemError(id, msg) == [where |-> "version/", at |-> 0, id |-> id, msg |-> msg]

\* what fetch_json does for the batch url: a list (of the records of the ids the registry
\* knows), a JSON value that is no list, an exception of the classes caught in line 177
\* (URLError, HTTPError, TimeoutError), or an exception of another class
BatchOutcomes == {"list", "no list", "caught", "other"}
\* what fetch_json does for /version/<id>: a dict, another JSON value, or an exception
ItemOutcomes == {"dict", "no dict", "caught", "other"}

\* lines 179-185: the ids of the batch one by one, from position k, until one request
\* raises an exception that line 184 does not catch
RECURSIVE RetryFrom(_, _, _, _)
RetryFrom(batch, f, k, st) ==
    IF k > Len(batch) \/ st.raised THEN st
    ELSE RetryFrom(batch, f, k + 1,
            [data |-> IF f[batch[k]] = "dict" THEN st.data \cup {batch[k]} ELSE st.data,
             errors |-> IF f[batch[k]] = "caught"
                        THEN Append(st.errors, ItemError(batch[k], "request failed"))
                        ELSE st.errors,
             retried |-> st.retried \cup {batch[k]},
             raised |-> f[batch[k]] = "other"])

OneByOne(batch, f) ==
    RetryFrom(batch, f, 1,
              [data |-> data,
               errors |-> Append(errors, BatchError(batch_at, "request failed")),
               retried |-> retried,
               raised |-> FALSE])

\* the batch is retried id by id in the except clause of line 177 only
RetriesOneByOne(outcome) == outcome = "caught"

InitCollect ==
    /\ MainOff
    /\ NormOff
    /\ FetchOff
    /\ UpdateOff
    /\ wanted_ids \in {S \in SUBSET VersionIdPool : Cardinality(S) <= MaxIds}
    /\ batch_size \in 0..MaxBatch
    /\ batch_at = 0
    /\ data = {}
    /\ errors = <<>>
    /\ retried = {}
    /\ failed_ids = {}
    /\ cpc = "loop"

\* one pass of the for loop of line 166
CollectBatch ==
    /\ cpc = "loop"
    /\ batch_at < Len(SortedIds)
    /\ \E outcome \in BatchOutcomes :
          /\ failed_ids' = IF outcome = "list" THEN failed_ids
                       ELSE failed_ids \cup SeqToSet(BatchAt(batch_at))
          /\ IF outcome = "list"
             THEN /\ \E got \in SUBSET SeqToSet(BatchAt(batch_at)) : data' = data \cup got
                  /\ batch_at' = batch_at + BatchSize
                  /\ UNCHANGED <<errors, retried, cpc>>
             ELSE IF RetriesOneByOne(outcome)
             THEN \E f \in [SeqToSet(BatchAt(batch_at)) -> ItemOutcomes] :
                  \E st \in {OneByOne(BatchAt(batch_at), f)} :
                      /\ data' = st.data
                      /\ errors' = st.errors
                      /\ retried' = st.retried
                      /\ cpc' = IF st.raised THEN "raised" ELSE cpc
                      /\ batch_at' = IF st.raised THEN batch_at ELSE batch_at + BatchSize
             ELSE IF outcome = "no list"
             THEN /\ errors' = Append(errors, BatchError(batch_at, "unexpected response type"))
                  /\ batch_at' = batch_at + BatchSize
                  /\ UNCHANGED <<data, retried, cpc>>
             ELSE /\ cpc' = "raised"
                  /\ UNCHANGED <<data, errors, retried, batch_at>>
    /\ UNCHANGED <<wanted_ids, batch_size>>
    /\ UNCHANGED <<mainVars, normVars, fetchVars, updateVars>>

\* line 191: return data, errors
CollectReturn ==
    /\ cpc = "loop"
    /\ batch_at >= Len(SortedIds)
    /\ cpc' = "returned"
    /\ UNCHANGED <<wanted_ids, batch_size, batch_at, data, errors, retried, failed_ids>>
    /\ UNCHANGED <<mainVars, normVars, fetchVars, updateVars>>

NextCollect ==
    \/ CollectBatch
    \/ CollectReturn

SpecCollect == InitCollect /\ [][NextCollect]_vars

\* an error string is recorded for id: one for the id itself, or one for the batch that
\* holds it
ErrorRecordedFor(id) ==
    \E k \in 1..Len(errors) :
        \/ errors[k].id = id
        \/ /\ errors[k].where = "versions batch starting at"
           /\ \E j \in 1..Len(BatchAt(errors[k].at)) : BatchAt(errors[k].at)[j] = id

(* C12: collect_versions_by_ids tolerates partial failure: when a batch request fails *)
(* (the request raises, or the response is not usable), every id of that batch is     *)
(* requested one by one; an id that is still not resolved is absent from the mapping  *)
(* returned and an error string is recorded for it; the function never raises.        *)
CollectToleratesPartialFailure ==
    /\ cpc # "raised"
    /\ failed_ids \subseteq retried
    /\ \A id \in failed_ids \ data : ErrorRecordedFor(id)
    /\ data \subseteq wanted_ids

----------------------------------------------------------------------------
(* create_prs.py: the update workflow.  One run of main(): the manifest is read, *)
(* every entry is compared with the registry's newest compatible version, and an *)
(* outdated entry gets a branch update-<slug> with the entry replaced.           *)

MaxPackages == 3

\* the registry when the workflow runs: project PA has released a2 since the pack was built
UpstreamVersion ==
    ("a2" :> Version("a2", "PA", <<>>,
                     <<FileAsset("a-2.jar", "cdn/data/PA/versions/a2/a-2.jar", TRUE, 21)>>,
                     "2024-09-01", {"neoforge"})) @@ RegistryVersion
\* GET /project/{id}/version
UpstreamProjectVersions == ("PA" :> <<"a1", "a2">>) @@ RegistryProjectVersions

ZIEL_BRANCH == <<"next">>
\* f"update-{slug}"
UpdateBranch(slug) == <<"update-", slug>>
Branches == {ZIEL_BRANCH} \cup {UpdateBranch(RegistrySlug[p]) : p \in DOMAIN RegistrySlug}

\* an entry of the pack's manifest: it has "env"
TrackedEntry(version_id) ==
    Put(PackEntry(version_id), "env",
        JObj(<<<<"client", JStr("required")>>, <<"server", JStr("required")>>>>))
UpdateCatalogue ==
    <<TrackedEntry("a1"), TrackedEntry("l1"), TrackedEntry("b1"), ManualEntry>>

\* old["downloads"][0], old["path"], old["hashes"]["sha512"]
DownloadOf(entry) == Items(Get(entry, "downloads", JList(<<>>)))[1]
PathOf(entry) == Get(entry, "path", JNull)
Sha512Of(entry) == Get(Get(entry, "hashes", JObj(<<>>)), "sha512", JNull)

\* "/data/" at position i of the code points u
DataAt(u, i) == i + 5 <= Len(u) /\ SubSeq(u, i, i + 5) = Cps("/data/")
\* "/data/" in url
HasData(url) == \E i \in 1..Len(Cps(url)) : DataAt(Cps(url), i)
\* url.split("/data/")[1].split("/")[0]
ProjectIdOf(url) ==
    LET u == Cps(url)
        i == CHOOSE k \in 1..Len(u) : DataAt(u, k) /\ \A m \in 1..(k - 1) : ~DataAt(u, m)
        rest == SubSeq(u, i + 6, Len(u))
        j == NextSlash(rest, 1)
    IN  StrOf(IF j = 0 THEN rest ELSE SubSeq(rest, 1, j - 1))

\* get_slug
get_slug(project_id) == RegistrySlug[project_id]

matches_mc_strict(mc, game_versions) == mc \in game_versions

\* fetch_latest_version: <<the version>>, or <<>> for RuntimeError("No matching versions").
\* candidates.sort(key=date_published, reverse=True) is stable: of the candidates with the
\* greatest date the first in the registry's order is taken.
fetch_latest_version(project_id, mc_version, loaders) ==
    LET ok(v) == /\ matches_mc_strict(mc_version, UpstreamVersion[v].game_versions)
                 /\ {StrOf(LowerCps(Cps(l))) : l \in UpstreamVersion[v].loaders} \cap loaders # {}
        candidates == SelectSeq(UpstreamProjectVersions[project_id], ok)
        date(i) == UpstreamVersion[candidates[i]].date_published
        first == CHOOSE i \in 1..Len(candidates) :
                    /\ \A j \in 1..Len(candidates) : ~StrLess(date(i), date(j))
                    /\ \A j \in 1..(i - 1) : date(j) # date(i)
    IN  IF candidates = <<>> THEN <<>> ELSE <<UpstreamVersion[candidates[first]]>>

\* build_entry: <<the entry>>, or <<>> when no file is flagged primary (StopIteration)
\* or old has no "env" (KeyError)
build_entry(version, old) ==
    LET files == version.files
        primary == {i \in 1..Len(files) : files[i].primary}
        file == files[CHOOSE i \in primary : \A j \in primary : i <= j]
    IN  IF primary = {} \/ ~Has(old, "env") THEN <<>>
        ELSE <<JObj(<<<<"path", JStr(StrOf(Cps("mods/") \o Cps(file.filename)))>>,
                      <<"hashes", JObj(<<<<"sha512", JStr(file.hashes.sha512)>>,
                                         <<"sha1", JStr(file.hashes.sha1)>>>>)>>,
                      <<"env", Get(old, "env", JNull)>>,
                      <<"downloads", JList(<<JStr(file.url)>>)>>,
                      <<"fileSize", JNum(file.size)>>>>)>>

entry_changed(old, new) ==
    \/ Sha512Of(old) # Sha512Of(new)
    \/ DownloadOf(old) # DownloadOf(new)
    \/ PathOf(old) # PathOf(new)

\* mc_version and loaders of main()
UpdateMc(index) == PyStr(Get(Get(index, "dependencies", JObj(<<>>)), "minecraft", JNull))
UpdateLoaders(index) == KeysOf(Get(index, "dependencies", JObj(<<>>))) \ {"minecraft"}

\* new_index: index with new in the place of every entry that has old's path
NewIndex(index, old, new) ==
    Put(index, "files",
        JList([i \in 1..Len(FilesOf(index)) |->
                  IF PathOf(FilesOf(index)[i]) = PathOf(old) THEN new ELSE FilesOf(index)[i]]))

\* next((f for f in existing_index["files"] if f["path"] == new["path"]), None)
ExistingEntry(existing_index, new) ==
    LET fs == FilesOf(existing_index)
        hits == {i \in 1..Len(fs) : PathOf(fs[i]) = PathOf(new)}
    IN  IF hits = {} THEN <<>> ELSE <<fs[CHOOSE i \in hits : \A j \in hits : i <= j]>>

\* the state of git and GitHub after the body of the loop
GitState(verdict, head, local, remote, prs, made, crashed) ==
    [verdict |-> verdict, head |-> head, local |-> local, remote |-> remote, prs |-> prs,
     made |-> made, crashed |-> crashed]
GitUntouched(verdict) ==
    GitState(verdict, git_head, local_branches, remote_branches, pulls, produced, FALSE)

\* lines 198-240: git checkout -B, write, add, commit, push -f, pull request.  git commit
\* fails (CalledProcessError, caught in line 242) when the manifest written is the one
\* HEAD holds.
Propose(branch, new_index, local, status) ==
    IF new_index = local[git_head]
    THEN GitState("unresolved", branch, [local EXCEPT ![branch] = local[git_head]],
                  remote_branches, pulls, produced \cup {branch}, FALSE)
    ELSE IF dry_run
    THEN GitState("proposed", ZIEL_BRANCH, [local EXCEPT ![branch] = new_index],
                  remote_branches, pulls, produced \cup {branch}, FALSE)
    ELSE GitState("proposed", branch, [local EXCEPT ![branch] = new_index],
                  [remote_branches EXCEPT ![branch] = new_index],
                  IF github_token /\ status = 201 THEN pulls \cup {branch} ELSE pulls,
                  produced \cup {branch}, FALSE)

\* lines 168-196: when origin has the branch it is checked out and read; an entry there
\* that equals new ends the iteration
CheckExisting(branch, old, new, status) ==
    IF remote_branches[branch] = NoFile
    THEN Propose(branch, NewIndex(pr_index, old, new), local_branches, status)
    ELSE LET existing_index == IF local_branches[branch] # NoFile
                               THEN local_branches[branch] ELSE remote_branches[branch]
             local == [local_branches EXCEPT ![branch] = existing_index]
             existing_entry == ExistingEntry(existing_index, new)
         IN  IF existing_entry # <<>> /\ ~entry_changed(existing_entry[1], new)
             THEN GitState("proposed before", git_head, local, remote_branches, pulls,
                           produced, FALSE)
             ELSE Propose(branch, NewIndex(pr_index, old, new), local, status)

\* lines 160-166
Compare(old, slug, built, status) ==
    IF built = <<>> THEN GitUntouched("unresolved")
    ELSE IF ~entry_changed(old, built[1]) THEN GitUntouched("current")
    ELSE CheckExisting(UpdateBranch(slug), old, built[1], status)

\* the body of the for loop of line 153 for old.  slug_ok: GET /project/<id> is answered;
\* latest_ok: GET /project/<id>/version is answered; status: the answer to the pull request
LoopBody(old, slug_ok, latest_ok, status) ==
    IF ~HasData(PyStr(DownloadOf(old))) THEN GitUntouched("skipped")
    ELSE IF ~slug_ok
    THEN GitState("crashed", git_head, local_branches, remote_branches, pulls, produced, TRUE)
    ELSE LET project_id == ProjectIdOf(PyStr(DownloadOf(old)))
             latest == IF latest_ok
                       THEN fetch_latest_version(project_id, UpdateMc(pr_index),
                                                 UpdateLoaders(pr_index))
                       ELSE <<>>
         IN  Compare(old, get_slug(project_id),
                     IF latest = <<>> THEN <<>> ELSE build_entry(latest[1], old), status)

\* an earlier run's branch for a project: the manifest with the project's entry replaced
EarlierProposal(m, project_id) ==
    Put(m, "files",
        JList([i \in 1..Len(FilesOf(m)) |->
            LET old == FilesOf(m)[i]
                latest == fetch_latest_version(project_id, UpdateMc(m), UpdateLoaders(m))
            IN  IF HasData(PyStr(DownloadOf(old))) /\ latest # <<>>
                THEN IF ProjectIdOf(PyStr(DownloadOf(old))) = project_id
                        /\ build_entry(latest[1], old) # <<>>
                     THEN build_entry(latest[1], old)[1] ELSE old
                ELSE old]))

\* origin before the run: next holds the manifest, and for each of two projects the update
\* branch is absent, holds the proposal of an earlier run, or holds an older manifest
RemoteChoices(m) ==
    {[b \in Branches |->
        IF b = ZIEL_BRANCH THEN m
        ELSE IF b = UpdateBranch(RegistrySlug["PA"]) THEN x
        ELSE IF b = UpdateBranch(RegistrySlug["PL"]) THEN y
        ELSE NoFile] :
     x \in {NoFile, EarlierProposal(m, "PA"), Put(m, "files", JList(<<>>))},
     y \in {NoFile, EarlierProposal(m, "PL"), Put(m, "files", JList(<<>>))}}

InitUpdate ==
    /\ MainOff
    /\ NormOff
    /\ FetchOff
    /\ CollectOff
    /\ manifest_file \in {Manifest(files, deps) :
                            files \in DistinctSeqs(UpdateCatalogue, MaxPackages),
                            deps \in RuntimeChoices}
    /\ pr_index = JNull
    /\ pr_pos = 0
    /\ git_head = ZIEL_BRANCH
    /\ local_branches = [b \in Branches |-> IF b = ZIEL_BRANCH THEN manifest_file ELSE NoFile]
    /\ remote_branches \in RemoteChoices(manifest_file)
    /\ pulls = {}
    /\ dry_run \in BOOLEAN
    /\ github_token \in BOOLEAN
    /\ produced = {}
    /\ verdicts = <<>>
    /\ upc = "start"

\* lines 145-151: json.load, git checkout next
UpdateStart ==
    /\ upc = "start"
    /\ pr_index' = manifest_file
    /\ git_head' = ZIEL_BRANCH
    /\ pr_pos' = 1
    /\ upc' = "loop"
    /\ UNCHANGED <<manifest_file, local_branches, remote_branches, pulls, dry_run,
                   github_token, produced, verdicts>>
    /\ UNCHANGED <<mainVars, normVars, fetchVars, collectVars>>

\* one pass of the for loop of line 153.  An exception of get_slug (line 159) is outside
\* the try block and ends main().
UpdateStep ==
    /\ upc = "loop"
    /\ pr_pos <= Len(FilesOf(pr_index))
    /\ \E slug_ok \in BOOLEAN, latest_ok \in BOOLEAN, status \in {201, 422, 500} :
       \E st \in {LoopBody(FilesOf(pr_index)[pr_pos], slug_ok, latest_ok, status)} :
          /\ git_head' = st.head
          /\ local_branches' = st.local
          /\ remote_branches' = st.remote
          /\ pulls' = st.prs
          /\ produced' = st.made
          /\ verdicts' = Append(verdicts, st.verdict)
          /\ upc' = IF st.crashed THEN "crashed" ELSE upc
          /\ pr_pos' = IF st.crashed THEN pr_pos ELSE pr_pos + 1
    /\ UNCHANGED <<manifest_file, pr_index, dry_run, github_token>>
    /\ UNCHANGED <<mainVars, normVars, fetchVars, collectVars>>

\* line 245: git checkout next
UpdateFinish ==
    /\ upc = "loop"
    /\ pr_pos > Len(FilesOf(pr_index))
    /\ git_head' = ZIEL_BRANCH
    /\ upc' = "done"
    /\ UNCHANGED <<manifest_file, pr_index, pr_pos, local_branches, remote_branches, pulls,
                   dry_run, github_token, produced, verdicts>>
    /\ UNCHANGED <<mainVars, normVars, fetchVars, collectVars>>

NextUpdate ==
    \/ UpdateStart
    \/ UpdateStep
    \/ UpdateFinish

SpecUpdate == InitUpdate /\ [][NextUpdate]_vars

\* the entry at position k follows the registry and the registry's newest compatible
\* version has another primary file than the one installed
NewestFor(k) ==
    fetch_latest_version(ProjectIdOf(PyStr(DownloadOf(FilesOf(pr_index)[k]))),
                         UpdateMc(pr_index), UpdateLoaders(pr_index))
Outdated(k) ==
    /\ HasData(PyStr(DownloadOf(FilesOf(pr_index)[k])))
    /\ NewestFor(k) # <<>>
    /\ \E i \in 1..Len(NewestFor(k)[1].files) :
          /\ NewestFor(k)[1].files[i].primary
          /\ JStr(NewestFor(k)[1].files[i].url) # DownloadOf(FilesOf(pr_index)[k])

\* m is the manifest read with the entry at k, and nothing else, replaced by the
\* newest version's file
OnlyReplaced(m, k) ==
    /\ m # NoFile
    /\ PairsExcept(Pairs(m), {"files"}) = PairsExcept(Pairs(pr_index), {"files"})
    /\ Len(FilesOf(m)) = Len(FilesOf(pr_index))
    /\ \A j \in 1..Len(FilesOf(m)) : j # k => FilesOf(m)[j] = FilesOf(pr_index)[j]
    /\ \E i \in 1..Len(NewestFor(k)[1].files) :
          DownloadOf(FilesOf(m)[k]) = JStr(NewestFor(k)[1].files[i].url)

BranchOf(k) ==
    UpdateBranch(RegistrySlug[ProjectIdOf(PyStr(DownloadOf(FilesOf(pr_index)[k])))])

(* C15: the update workflow checks every entry of the manifest: an entry whose newest *)
(* compatible upstream version differs from the installed one has one branch          *)
(* update-<slug> whose manifest is the manifest read with only that entry replaced;   *)
(* an entry that is up to date or cannot be resolved gets no branch, and neither case *)
(* stops the entries after it from being checked.                                     *)
UpdateOneProposalPerOutdated ==
    /\ upc # "crashed"
    /\ upc = "done" =>
          /\ Len(verdicts) = Len(FilesOf(pr_index))
          /\ \A k \in 1..Len(verdicts) :
                IF verdicts[k] = "skipped" THEN TRUE
                ELSE IF Outdated(k) /\ verdicts[k] # "unresolved"
                THEN \/ OnlyReplaced(local_branches[BranchOf(k)], k)
                     \/ OnlyReplaced(remote_branches[BranchOf(k)], k)
                ELSE BranchOf(k) \notin produced
====
